---------------------------- MODULE Spec2Model ----------------------------
(***************************************************************************)
(* Model of the faucet core: the mint-request ledger with its three        *)
(* backends (in-memory, relational, document), the in-process rate         *)
(* limiter, the inline mint pipeline, the bounded work queue with its      *)
(* worker loop, and independent callers of next_pending; further the       *)
(* identity store behind touch_user and set_role, quota_snapshot, the      *)
(* reporting query daily_summary, and the web front end's JwtService.      *)
(*                                                                         *)
(* Every store call is one atomic step; every .await of the source is a    *)
(* point where other tasks may run.  The relational next_pending is two    *)
(* steps (SELECT .. FOR UPDATE SKIP LOCKED, then UPDATE and COMMIT) with   *)
(* the selected row locked in between.                                     *)
(***************************************************************************)
EXTENDS Integers, Sequences, FiniteSets, TLC

(***************************************************************************)
(* Bounds of the model.                                                    *)
(***************************************************************************)
MaxReq == 2
MaxSubmits == 2
MaxDay == 2
MaxRepoCalls == 2
MaxIdCalls == 3
MaxPending == 3
MaxStoreOps == 3
MaxTokens == 1

(***************************************************************************)
(* Processes.                                                              *)
(***************************************************************************)
Minters == {"m1", "m2"}
Submitters == {"s1"}
Workers == {"w1"}
Claimers == {"c1", "c2", "c3"}
Enqueuers == {"e1"}
Touchers == {"t1", "t2"}
RoleSetters == {"a1"}

Backends == {"memory", "postgres", "mongo"}

(***************************************************************************)
(* Option<T>: None is the empty sequence, Some(v) a one-element sequence.  *)
(***************************************************************************)
None == << >>
Some(v) == << v >>
IsSome(o) == o # << >>
Unwrap(o) == o[1]

Put(f, k, v) == [x \in DOMAIN f \cup {k} |-> IF x = k THEN v ELSE f[x]]
Get(f, k) == IF k \in DOMAIN f THEN Some(f[k]) ELSE None

(***************************************************************************)
(* models.rs                                                               *)
(***************************************************************************)
Role == {"User", "Privileged", "Admin"}
MintStatus == {"Pending", "Processing", "Completed", "Failed"}
Terminal == {"Completed", "Failed"}

\* The users handed to mint by the front ends (id, channel, role).
Users ==
    { [id |-> "u1", channel |-> "web", role |-> "User"],
      [id |-> "u2", channel |-> "telegram", role |-> "Privileged"] }

\* LimitConfig values: the spec's scenario (ceiling 100, daily cap 150) for
\* role User; the privileged cap is optional.
LimitConfigs ==
    { [default_amount |-> 100, default_daily_cap |-> 150,
       privileged_amount |-> 120, privileged_daily_cap |-> None],
      [default_amount |-> 100, default_daily_cap |-> 150,
       privileged_amount |-> 120, privileged_daily_cap |-> Some(100)] }

\* Amounts requested by callers: zero; within every ceiling (50 + 50 meets the
\* privileged cap exactly, 80 + 80 passes the User cap); above the User
\* ceiling and above the privileged cap; above every ceiling.
Amounts == {0, 50, 80, 120, 130}

VARIABLES
    backend,    \* which store the process was started with
    limits,     \* LimitConfig
    actor,      \* the User the front end passes to mint and submit
    day,        \* calendar day of Utc::now()
    nextId,     \* next fresh Uuid / creation instant
    mints,      \* mint ledger: id -> MintRequest
    queue,      \* MemoryStore.queue (VecDeque<Uuid>)
    locked,     \* relational rows locked by open next_pending transactions
    quotas,     \* quota ledger: <<user_id, day>> -> Quota
    failures,   \* MintFailure log
    memory,     \* RateLimiter.memory: <<user_id, day>> -> u64
    mutex,      \* holder of RateLimiter.memory's Mutex
    chan,       \* mpsc channel buffer of MintQueue
    depth,      \* capacity of the channel
    closed,     \* every Sender dropped
    pc,         \* position of each task
    call,       \* minter: arguments and locals of the current mint call
    req,        \* request object held by a task (Option<MintRequest>)
    result,     \* what the last call of a task returned
    ncalls,     \* calls started by a task
    transfers,  \* submit_transfer invocations per request id
    admitted,   \* sum of the amounts that passed the daily-cap check
    debits,     \* record_mint calls completed by the current mint call
    faulted,    \* a store call has returned Err
    users,      \* identity store: the stored User records
    ident,      \* touch_user / set_role callers: position, arguments, locals
    reply,      \* what the last read-only call (quota_snapshot, ..) returned
    replica,    \* one store of each backend, all given the same calls
    answer,     \* what each of them returned to the last call
    clock,      \* Utc::now().timestamp(), in seconds
    tokens      \* JWTs issued so far, with the arguments they were made from

vars == << backend, limits, actor, day, nextId, mints, queue, locked, quotas,
           failures, memory, mutex, chan, depth, closed, pc, call, req,
           result, ncalls, transfers, admitted, debits, faulted, users,
           ident, reply, replica, answer, clock, tokens >>

storeVars == << mints, queue, locked, quotas, failures >>
envVars == << backend, limits, actor, depth >>

Procs == Minters \cup Submitters \cup Workers \cup Claimers \cup Enqueuers

(***************************************************************************)
(* queue.rs: new_request                                                   *)
(***************************************************************************)
new_request(user_id, channel, amount, id, now) ==
    [ id |-> id, user_id |-> user_id, channel |-> channel, amount |-> amount,
      status |-> "Pending", tx_hash |-> None, error |-> None,
      requested_at |-> [day |-> now, seq |-> id],
      processed_at |-> None, attempt |-> 0 ]

date_naive(t) == t.day


(***************************************************************************)
(* Store operations (db/memory.rs, db/postgres.rs, db/mongodb.rs).         *)
(* Each operator computes the row, queue or quota map the call leaves.     *)
(***************************************************************************)

\* enqueue: the row written for `request` when `old` is the row stored under
\* its id (None when absent).
EnqueueRow(b, old, request) ==
    CASE b = "memory" -> [request EXCEPT !.status = "Pending"]
      [] b = "postgres" ->
            IF IsSome(old)
            THEN [request EXCEPT !.user_id = Unwrap(old).user_id]
            ELSE request
      [] OTHER -> request

\* enqueue: the in-memory backend also pushes the id on its queue.
EnqueueQueue(b, q, id) == IF b = "memory" THEN Append(q, id) ELSE q

\* next_pending: the statuses a backend accepts for a claim.
ClaimableStatus(b) ==
    IF b = "memory" THEN {"Pending", "Processing"} ELSE {"Pending"}

\* next_pending, in-memory: ids are popped from the front until one names a
\* stored request in a claimable status; PopCount is the number popped.
RECURSIVE PopCount(_, _)
PopCount(q, m) ==
    IF q = << >> THEN 0
    ELSE IF Head(q) \in DOMAIN m /\ m[Head(q)].status \in ClaimableStatus("memory")
         THEN 1
         ELSE 1 + PopCount(Tail(q), m)

PopFound(q, m) ==
    /\ PopCount(q, m) > 0
    /\ q[PopCount(q, m)] \in DOMAIN m
    /\ m[q[PopCount(q, m)]].status \in ClaimableStatus("memory")

\* The same SELECT without SKIP LOCKED: rows locked by another transaction are
\* candidates too.
PendingRowsNoSkip(b, m, lk) ==
    {id \in DOMAIN m : m[id].status \in ClaimableStatus(b)}

\* next_pending, relational and document: the pending rows (not row-locked by
\* another transaction), and the one ORDER BY requested_at ASC LIMIT 1 picks.
PendingRows(b, m, lk) ==
    {id \in DOMAIN m : m[id].status \in ClaimableStatus(b) /\ id \notin lk}

Before(t1, t2) ==
    \/ t1.day < t2.day
    \/ t1.day = t2.day /\ t1.seq <= t2.seq

Oldest(m, ids) ==
    CHOOSE id \in ids : \A o \in ids : Before(m[id].requested_at, m[o].requested_at)

\* next_pending: the row after the claim.
ClaimedRow(row, now) ==
    [row EXCEPT !.status = "Processing",
                !.processed_at = Some(now),
                !.attempt = @ + 1]

\* update_status
UpdateStatusRow(row, status, now) ==
    [row EXCEPT !.status = status,
                !.processed_at = IF status \in Terminal THEN Some(now) ELSE @]

UpdateStatus(m, id, status, now) ==
    IF id \in DOMAIN m THEN Put(m, id, UpdateStatusRow(m[id], status, now)) ELSE m

\* A record_outcome that writes only status and processed_at (what
\* update_status writes).
RecordOutcomeRowStatusOnly(b, row, outcome, now) ==
    UpdateStatusRow(row, outcome.request.status, now)

\* record_outcome: the mint row.
RecordOutcomeRow(b, row, outcome, now) ==
    CASE b = "memory" -> [outcome.request EXCEPT !.tx_hash = outcome.tx_hash]
      [] b = "postgres" ->
            [row EXCEPT !.status = outcome.request.status,
                        !.tx_hash = outcome.tx_hash,
                        !.error = outcome.request.error,
                        !.processed_at = outcome.request.processed_at,
                        !.attempt = outcome.request.attempt]
      [] OTHER ->
            [row EXCEPT !.status = outcome.request.status,
                        !.tx_hash = outcome.tx_hash,
                        !.error = outcome.request.error,
                        !.processed_at =
                            IF IsSome(outcome.request.processed_at)
                            THEN outcome.request.processed_at
                            ELSE Some(now),
                        !.attempt = outcome.request.attempt]

\* A record_outcome that writes nothing to the mint ledger.
RecordOutcomeMintsSkipped(b, m, outcome, now) == m

RecordOutcomeMints(b, m, outcome, now) ==
    IF outcome.request.id \in DOMAIN m
    THEN Put(m, outcome.request.id,
             RecordOutcomeRow(b, m[outcome.request.id], outcome, now))
    ELSE m

\* record_outcome: the quota ledger (success_count of the request's day).
RecordOutcomeQuotas(b, q, outcome) ==
    LET key == << outcome.request.user_id, date_naive(outcome.request.requested_at) >>
    IN  IF outcome.request.status # "Completed" THEN q
        ELSE IF key \in DOMAIN q
             THEN Put(q, key, [q[key] EXCEPT !.success_count = @ + 1])
             ELSE IF b = "memory"
                  THEN Put(q, key, [minted_total |-> 0, success_count |-> 1])
                  ELSE q

\* A record_mint that stores the amount instead of adding it.
RecordMintOverwrite(q, user_id, d, amount) ==
    Put(q, << user_id, d >>,
        [minted_total |-> amount,
         success_count |-> IF << user_id, d >> \in DOMAIN q
                           THEN q[<< user_id, d >>].success_count ELSE 0])

\* record_mint
RecordMint(q, user_id, d, amount) ==
    LET key == << user_id, d >>
    IN  IF key \in DOMAIN q
        THEN Put(q, key, [q[key] EXCEPT !.minted_total = @ + amount])
        ELSE Put(q, key, [minted_total |-> amount, success_count |-> 0])

\* Whether the store of backend b executes record_mint.  The document store
\* receives one update document that names minted_total under $setOnInsert
\* (through quota_doc) and under $inc; the server rejects an update whose
\* operators name the same path, whether or not a document matches, so
\* update_one returns Err and nothing is written.
RecordMintAccepted(b) == b # "mongo"

\* fetch_quota
FetchQuota(q, user_id, d) == Get(q, << user_id, d >>)

\* A backend call that can fail with a storage error (connectivity loss, a
\* rejected statement); the in-memory store always returns Ok.
CanFail(b) == b # "memory"

\* A writer to a relational row waits while a next_pending transaction holds
\* the row lock.
RowFree(b, lk, id) == b # "postgres" \/ id \notin lk

(***************************************************************************)
(* rate_limit.rs                                                           *)
(***************************************************************************)
\* A ceiling that ignores the role.
max_amount_any_role(lim, role) == lim.privileged_amount

max_amount(lim, role) ==
    IF role \in {"Admin", "Privileged"} THEN lim.privileged_amount
    ELSE lim.default_amount

max_daily_cap(lim, role) ==
    IF role \in {"Admin", "Privileged"} THEN lim.privileged_daily_cap
    ELSE Some(lim.default_daily_cap)

\* guard.entry(key).or_insert(0)
EntryOrInsert(mem, key) == IF key \in DOMAIN mem THEN mem ELSE Put(mem, key, 0)

\* The comparison with >= : an amount that lands exactly on the cap is refused.
CapExceededAtCap(entry, amount, cap) == entry + amount >= cap

\* if *entry + amount > cap
CapExceeded(entry, amount, cap) == entry + amount > cap

\* A lock that is always granted (no mutual exclusion).
MutexFreeAlways(mx) == TRUE

\* memory.lock().await: the mutex is granted only when free.
MutexFree(mx) == mx = None

\* The value of the in-process counter (an absent entry counts as 0).
CounterValue(mem, key) == IF key \in DOMAIN mem THEN mem[key] ELSE 0

\* service.rs: quota_snapshot and QuotaSnapshot::remaining
quota_snapshot(q, lim, user, today) ==
    [ minted |-> IF IsSome(FetchQuota(q, user.id, today))
                 THEN Unwrap(FetchQuota(q, user.id, today)).minted_total
                 ELSE 0,
      cap |-> max_daily_cap(lim, user.role) ]

\* A remaining() that subtracts without saturating.
remaining_unsaturated(snap) ==
    IF IsSome(snap.cap) THEN Some(Unwrap(snap.cap) - snap.minted) ELSE None

remaining(snap) ==
    IF IsSome(snap.cap)
    THEN Some(IF Unwrap(snap.cap) >= snap.minted
              THEN Unwrap(snap.cap) - snap.minted ELSE 0)
    ELSE None


(***************************************************************************)
(* Initial state: a freshly started process with an empty store.           *)
(***************************************************************************)
NoCall == [user |-> None, amount |-> 0, today |-> 0]

InitTasks ==
    /\ pc = [p \in Procs |-> IF p \in Workers THEN "recv" ELSE "idle"]
    /\ call = [p \in Minters |-> NoCall]
    /\ req = [p \in Procs |-> None]
    /\ result = [p \in Procs |-> "none"]
    /\ ncalls = [p \in Procs |-> 0]
    /\ mutex = None
    /\ memory = << >>
    /\ admitted = << >>
    /\ debits = [p \in Minters |-> 0]
    /\ faulted = FALSE

IdProcs == Touchers \cup RoleSetters

\* A store right after connect / MemoryStore::default().
EmptyStore == [users |-> {}, mints |-> << >>, queue |-> << >>, quotas |-> << >>]

NoIdent == [pc |-> "idle", n |-> 0, args |-> None, found |-> None,
            user |-> None, result |-> "none"]

InitStoreBase ==
    /\ depth = 1
    /\ day = 1
    /\ nextId = 1
    /\ mints = << >>
    /\ queue = << >>
    /\ locked = {}
    /\ quotas = << >>
    /\ failures = << >>
    /\ chan = << >>
    /\ closed = FALSE
    /\ transfers = [id \in 1..(MaxReq + 1) |-> 0]
    /\ users = {}
    /\ ident = [p \in IdProcs |-> NoIdent]
    /\ reply = None
    /\ clock = 0
    /\ tokens = {}

InitStore ==
    /\ InitStoreBase
    /\ replica = [b \in Backends |-> EmptyStore]
    /\ answer = [n |-> 0, op |-> "none", out |-> [b \in Backends |-> "none"]]

\* Any backend, any limit configuration, any user.
InitAny ==
    /\ backend \in Backends
    /\ limits \in LimitConfigs
    /\ actor \in Users
    /\ InitStore
    /\ InitTasks

\* Any backend; the user has role User.
Init ==
    /\ backend \in Backends
    /\ limits \in LimitConfigs
    /\ IsSome(limits.privileged_daily_cap)
    /\ actor \in Users
    /\ actor.role = "User"
    /\ InitStore
    /\ InitTasks

(***************************************************************************)
(* service.rs: FaucetService::mint, with RateLimiter::check_and_record     *)
(* inlined at its call.                                                    *)
(***************************************************************************)
Return(p, r) ==
    /\ pc' = [pc EXCEPT ![p] = "idle"]
    /\ result' = [result EXCEPT ![p] = r]

Goto(p, l) == pc' = [pc EXCEPT ![p] = l]

\* Calls in flight that have not yet drawn their request id (the model has
\* MaxReq ids: a call starts only if one is left for it).
AwaitingId == {q \in Minters : pc[q] \in {"lock", "add", "record_mint"}}

\* A mint without the amount == 0 test.
InvalidAmountNever(a) == FALSE

\* if amount == 0
InvalidAmount(a) == a = 0

\* mint returns r to its caller: the call's arguments and locals are gone.
MintReturn(p, r) ==
    /\ Return(p, r)
    /\ call' = [call EXCEPT ![p] = NoCall]
    /\ debits' = [debits EXCEPT ![p] = 0]

\* mint is called: the amount == 0 test, then check_and_record up to its
\* first .await (the per-request ceiling; `today` is read first).
MintBegin(p, u, a) ==
    /\ pc[p] = "idle"
    /\ nextId + Cardinality(AwaitingId) <= MaxReq
    /\ req' = [req EXCEPT ![p] = None]
    /\ debits' = [debits EXCEPT ![p] = 0]
    /\ IF InvalidAmount(a) THEN Return(p, "InvalidAmount") /\ UNCHANGED call
       ELSE IF a > max_amount(limits, u.role)
            THEN Return(p, "AmountExceedsRoleLimit") /\ UNCHANGED call
            ELSE /\ result' = [result EXCEPT ![p] = "none"]
                 /\ call' = [call EXCEPT ![p] =
                               [user |-> Some(u), amount |-> a, today |-> day]]
                 /\ IF IsSome(max_daily_cap(limits, u.role))
                    THEN Goto(p, "lock")
                    ELSE Goto(p, "record_mint")
    /\ UNCHANGED << clock, tokens, replica, answer, reply, users, ident, backend, limits, actor, day, nextId, mints, queue, locked,
                    quotas, failures, memory, mutex, chan, depth, closed,
                    ncalls, transfers, admitted, faulted >>

CallKey(p) == << Unwrap(call[p].user).id, call[p].today >>
CallCap(p) == Unwrap(max_daily_cap(limits, Unwrap(call[p].user).role))

\* The mutex is acquired, the entry is looked up (or inserted as 0) and
\* compared with the cap; a rejection drops the guard at once.
CheckLock(p) ==
    /\ pc[p] = "lock"
    /\ MutexFree(mutex)
    /\ memory' = EntryOrInsert(memory, CallKey(p))
    /\ IF CapExceeded(CounterValue(memory, CallKey(p)), call[p].amount, CallCap(p))
       THEN /\ MintReturn(p, "DailyCapReached")
            /\ UNCHANGED << mutex, admitted >>
       ELSE /\ mutex' = Some(p)
            /\ Goto(p, "add")
            /\ admitted' = Put(admitted, CallKey(p),
                               CounterValue(admitted, CallKey(p)) + call[p].amount)
            /\ UNCHANGED << result, call, debits >>
    /\ UNCHANGED << clock, tokens, replica, answer, reply, users, ident, backend, limits, actor, day, nextId, mints, queue, locked,
                    quotas, failures, chan, depth, closed, req, ncalls,
                    transfers, faulted >>

\* *entry += amount; the guard is dropped at the end of the block.
CheckAdd(p) ==
    /\ pc[p] = "add"
    /\ memory' = Put(memory, CallKey(p),
                     CounterValue(memory, CallKey(p)) + call[p].amount)
    /\ mutex' = None
    /\ Goto(p, "record_mint")
    /\ UNCHANGED << clock, tokens, replica, answer, reply, users, ident, backend, limits, actor, day, nextId, mints, queue, locked,
                    quotas, failures, chan, depth, closed, call, req, result,
                    ncalls, transfers, admitted, debits, faulted >>

\* self.repo.record_mint(user.id, today, amount).await, then new_request.
MintRecordMint(p) ==
    /\ pc[p] = "record_mint"
    /\ RecordMintAccepted(backend)
    /\ quotas' = RecordMint(quotas, Unwrap(call[p].user).id, call[p].today,
                            call[p].amount)
    /\ debits' = [debits EXCEPT ![p] = @ + 1]
    /\ req' = [req EXCEPT ![p] =
                  Some(new_request(Unwrap(call[p].user).id,
                                   Unwrap(call[p].user).channel,
                                   call[p].amount, nextId, day))]
    /\ nextId' = nextId + 1
    /\ Goto(p, "enqueue")
    /\ UNCHANGED << clock, tokens, replica, answer, reply, users, ident, backend, limits, actor, day, mints, queue, locked, failures,
                    memory, mutex, chan, depth, closed, call, result, ncalls,
                    transfers, admitted, faulted >>

\* self.store.enqueue(&request).await
MintEnqueue(p) ==
    /\ pc[p] = "enqueue"
    /\ RowFree(backend, locked, Unwrap(req[p]).id)
    /\ mints' = Put(mints, Unwrap(req[p]).id,
                    EnqueueRow(backend, Get(mints, Unwrap(req[p]).id), Unwrap(req[p])))
    /\ queue' = EnqueueQueue(backend, queue, Unwrap(req[p]).id)
    /\ Goto(p, "update_status")
    /\ UNCHANGED << clock, tokens, replica, answer, reply, users, ident, backend, limits, actor, day, nextId, locked, quotas, failures,
                    memory, mutex, chan, depth, closed, call, req, result,
                    ncalls, transfers, admitted, debits, faulted >>

\* self.store.update_status(request.id, Processing).await, then the local
\* copy becomes Processing with attempt + 1.
MintUpdateStatus(p) ==
    /\ pc[p] = "update_status"
    /\ RowFree(backend, locked, Unwrap(req[p]).id)
    /\ mints' = UpdateStatus(mints, Unwrap(req[p]).id, "Processing", day)
    /\ req' = [req EXCEPT ![p] =
                  Some([Unwrap(@) EXCEPT !.status = "Processing",
                                         !.attempt = @ + 1])]
    /\ Goto(p, "transfer")
    /\ UNCHANGED << clock, tokens, replica, answer, reply, users, ident, backend, limits, actor, day, nextId, queue, locked, quotas,
                    failures, memory, mutex, chan, depth, closed, call,
                    result, ncalls, transfers, admitted, debits, faulted >>

\* The value submit_transfer returns for its n-th invocation on a request.
TxHash(id, n) == [request |-> id, n |-> n]

\* self.client.submit_transfer(&request).await and the match arm's updates
\* of the local copy.
MintTransfer(p) ==
    /\ pc[p] = "transfer"
    /\ transfers' = [transfers EXCEPT ![Unwrap(req[p]).id] = @ + 1]
    /\ \E ok \in BOOLEAN :
          req' = [req EXCEPT ![p] =
                    Some(IF ok
                         THEN [Unwrap(@) EXCEPT
                                 !.status = "Completed",
                                 !.tx_hash = Some(TxHash(Unwrap(req[p]).id,
                                                 transfers[Unwrap(req[p]).id] + 1)),
                                 !.processed_at = Some(day)]
                         ELSE [Unwrap(@) EXCEPT
                                 !.status = "Failed",
                                 !.error = Some("transfer failed"),
                                 !.processed_at = Some(day)])]
    /\ Goto(p, "record_outcome")
    /\ UNCHANGED << clock, tokens, replica, answer, reply, users, ident, backend, limits, actor, day, nextId, mints, queue, locked,
                    quotas, failures, memory, mutex, chan, depth, closed,
                    call, result, ncalls, admitted, debits, faulted >>

\* MintOutcome { request, tx_hash }
Outcome(request) ==
    [ request |-> request,
      tx_hash |-> IF request.status = "Completed" THEN request.tx_hash ELSE None ]

\* self.store.record_outcome(&outcome).await
MintRecordOutcome(p) ==
    /\ pc[p] = "record_outcome"
    /\ RowFree(backend, locked, Unwrap(req[p]).id)
    /\ mints' = RecordOutcomeMints(backend, mints, Outcome(Unwrap(req[p])), day)
    /\ quotas' = RecordOutcomeQuotas(backend, quotas, Outcome(Unwrap(req[p])))
    /\ IF Unwrap(req[p]).status = "Completed"
       THEN MintReturn(p, "Ok")
       ELSE Goto(p, "log_failure") /\ UNCHANGED << result, call, debits >>
    /\ UNCHANGED << clock, tokens, replica, answer, reply, users, ident, backend, limits, actor, day, nextId, queue, locked, failures,
                    memory, mutex, chan, depth, closed, req, ncalls,
                    transfers, admitted, faulted >>

\* self.store.log_failure(request.id, now, &error_message).await; Err(err)
MintLogFailure(p) ==
    /\ pc[p] = "log_failure"
    /\ failures' = Append(failures, [request_id |-> Unwrap(req[p]).id, failed_at |-> day])
    /\ MintReturn(p, "TransferFailed")
    /\ UNCHANGED << clock, tokens, replica, answer, reply, users, ident, backend, limits, actor, day, nextId, mints, queue, locked,
                    quotas, memory, mutex, chan, depth, closed, req,
                    ncalls, transfers, admitted, faulted >>

\* record_mint on a store that rejects its update: check_and_record returns
\* the Err and `?` in mint returns it; nothing was written.
MintRecordMintRejected(p) ==
    /\ pc[p] = "record_mint"
    /\ ~RecordMintAccepted(backend)
    /\ MintReturn(p, "StorageUnavailable")
    /\ UNCHANGED << clock, tokens, replica, answer, reply, users, ident,
                    backend, limits, actor, day, nextId, mints, queue, locked,
                    quotas, failures, memory, mutex, chan, depth, closed,
                    req, ncalls, transfers, admitted, faulted >>

\* A store call of mint returns Err (the `?` returns it to the caller).
MintStoreCalls == {"record_mint", "enqueue", "update_status", "record_outcome",
                   "log_failure"}

MintStorageError(p) ==
    /\ pc[p] \in MintStoreCalls
    /\ CanFail(backend)
    /\ faulted' = TRUE
    /\ MintReturn(p, "StorageUnavailable")
    /\ UNCHANGED << clock, tokens, replica, answer, reply, users, ident, backend, limits, actor, day, nextId, mints, queue, locked,
                    quotas, failures, memory, mutex, chan, depth, closed,
                    req, ncalls, transfers, admitted >>


(***************************************************************************)
(* queue.rs: MintQueue::enqueue (submit) and worker_loop.                  *)
(***************************************************************************)
\* A caller builds a request with new_request and calls MintQueue::enqueue:
\* request.status = Pending.
SubmitNew(s, u, a) ==
    /\ pc[s] = "idle"
    /\ ~closed
    /\ ncalls[s] < MaxSubmits
    /\ nextId + Cardinality(AwaitingId) <= MaxReq
    /\ ncalls' = [ncalls EXCEPT ![s] = @ + 1]
    /\ req' = [req EXCEPT ![s] = Some(new_request(u.id, u.channel, a, nextId, day))]
    /\ nextId' = nextId + 1
    /\ result' = [result EXCEPT ![s] = "none"]
    /\ Goto(s, "enqueue")
    /\ UNCHANGED << clock, tokens, replica, answer, reply, users, ident, backend, limits, actor, day, mints, queue, locked, quotas,
                    failures, memory, mutex, chan, depth, closed, call,
                    transfers, admitted, debits, faulted >>

\* A caller calls MintQueue::enqueue again with the request of its last call.
SubmitAgain(s) ==
    /\ pc[s] = "idle"
    /\ ~closed
    /\ ncalls[s] < MaxSubmits
    /\ IsSome(req[s])
    /\ ncalls' = [ncalls EXCEPT ![s] = @ + 1]
    /\ req' = [req EXCEPT ![s] = Some([Unwrap(@) EXCEPT !.status = "Pending"])]
    /\ result' = [result EXCEPT ![s] = "none"]
    /\ Goto(s, "enqueue")
    /\ UNCHANGED << clock, tokens, replica, answer, reply, users, ident, backend, limits, actor, day, nextId, mints, queue, locked,
                    quotas, failures, memory, mutex, chan, depth, closed,
                    call, transfers, admitted, debits, faulted >>

\* self.repo.enqueue(&request).await
SubmitEnqueue(s) ==
    /\ pc[s] = "enqueue"
    /\ RowFree(backend, locked, Unwrap(req[s]).id)
    /\ mints' = Put(mints, Unwrap(req[s]).id,
                    EnqueueRow(backend, Get(mints, Unwrap(req[s]).id), Unwrap(req[s])))
    /\ queue' = EnqueueQueue(backend, queue, Unwrap(req[s]).id)
    /\ Goto(s, "send")
    /\ UNCHANGED << clock, tokens, replica, answer, reply, users, ident, backend, limits, actor, day, nextId, locked, quotas, failures,
                    memory, mutex, chan, depth, closed, call, req, result,
                    ncalls, transfers, admitted, debits, faulted >>

\* The Receiver is dropped once worker_loop has returned.
ReceiverDropped == \A w \in Workers : pc[w] = "stopped"

\* self.tx.send(request).await: waits for a free slot; Err when the receiver
\* is gone.
SubmitSend(s) ==
    /\ pc[s] = "send"
    /\ IF ReceiverDropped
       THEN Return(s, "QueueClosed") /\ UNCHANGED chan
       ELSE /\ Len(chan) < depth
            /\ chan' = Append(chan, Unwrap(req[s]))
            /\ Return(s, "Ok")
    /\ UNCHANGED << clock, tokens, replica, answer, reply, users, ident, backend, limits, actor, day, nextId, mints, queue, locked,
                    quotas, failures, memory, mutex, depth, closed, call,
                    req, ncalls, transfers, admitted, debits, faulted >>

SubmitStorageError(s) ==
    /\ pc[s] = "enqueue"
    /\ CanFail(backend)
    /\ faulted' = TRUE
    /\ Return(s, "StorageUnavailable")
    /\ UNCHANGED << clock, tokens, replica, answer, reply, users, ident, backend, limits, actor, day, nextId, mints, queue, locked,
                    quotas, failures, memory, mutex, chan, depth, closed,
                    call, req, ncalls, transfers, admitted, debits >>

\* Every MintQueue (Sender) is dropped: no submit is in progress or follows.
Close ==
    /\ ~closed
    /\ \A s \in Submitters : pc[s] = "idle"
    /\ closed' = TRUE
    /\ UNCHANGED << clock, tokens, replica, answer, reply, users, ident, backend, limits, actor, day, nextId, mints, queue, locked,
                    quotas, failures, memory, mutex, chan, depth, pc, call,
                    req, result, ncalls, transfers, admitted, debits, faulted >>

\* while let Some(mut request) = rx.recv().await
WorkerRecv(w) ==
    /\ pc[w] = "recv"
    /\ IF chan # << >>
       THEN /\ req' = [req EXCEPT ![w] = Some(Head(chan))]
            /\ chan' = Tail(chan)
            /\ Goto(w, "update_status")
            /\ UNCHANGED result
       ELSE /\ closed
            /\ Goto(w, "stopped")
            /\ result' = [result EXCEPT ![w] = "Ok"]
            /\ UNCHANGED << req, chan >>
    /\ UNCHANGED << clock, tokens, replica, answer, reply, users, ident, backend, limits, actor, day, nextId, mints, queue, locked,
                    quotas, failures, memory, mutex, depth, closed, call,
                    ncalls, transfers, admitted, debits, faulted >>

\* repo.update_status(request.id, Processing).await?
WorkerUpdateStatus(w) ==
    /\ pc[w] = "update_status"
    /\ RowFree(backend, locked, Unwrap(req[w]).id)
    /\ mints' = UpdateStatus(mints, Unwrap(req[w]).id, "Processing", day)
    /\ Goto(w, "transfer")
    /\ UNCHANGED << clock, tokens, replica, answer, reply, users, ident, backend, limits, actor, day, nextId, queue, locked, quotas,
                    failures, memory, mutex, chan, depth, closed, call, req,
                    result, ncalls, transfers, admitted, debits, faulted >>

\* client.submit_transfer(&request).await; on Ok the local copy becomes
\* Completed with the hash.
WorkerTransfer(w) ==
    /\ pc[w] = "transfer"
    /\ transfers' = [transfers EXCEPT ![Unwrap(req[w]).id] = @ + 1]
    /\ \E ok \in BOOLEAN :
          IF ok
          THEN /\ req' = [req EXCEPT ![w] =
                            Some([Unwrap(@) EXCEPT
                                    !.status = "Completed",
                                    !.tx_hash = Some(TxHash(Unwrap(req[w]).id,
                                                    transfers[Unwrap(req[w]).id] + 1))])]
               /\ Goto(w, "record_outcome")
          ELSE /\ UNCHANGED req
               /\ Goto(w, "mark_failed")
    /\ UNCHANGED << clock, tokens, replica, answer, reply, users, ident, backend, limits, actor, day, nextId, mints, queue, locked,
                    quotas, failures, memory, mutex, chan, depth, closed,
                    call, result, ncalls, admitted, debits, faulted >>

\* repo.record_outcome(&MintOutcome { request, tx_hash: Some(hash) }).await?
WorkerRecordOutcome(w) ==
    /\ pc[w] = "record_outcome"
    /\ RowFree(backend, locked, Unwrap(req[w]).id)
    /\ mints' = RecordOutcomeMints(backend, mints, Outcome(Unwrap(req[w])), day)
    /\ quotas' = RecordOutcomeQuotas(backend, quotas, Outcome(Unwrap(req[w])))
    /\ Goto(w, "recv")
    /\ UNCHANGED << clock, tokens, replica, answer, reply, users, ident, backend, limits, actor, day, nextId, queue, locked, failures,
                    memory, mutex, chan, depth, closed, call, req, result,
                    ncalls, transfers, admitted, debits, faulted >>

\* repo.update_status(request.id, Failed).await?
WorkerMarkFailed(w) ==
    /\ pc[w] = "mark_failed"
    /\ RowFree(backend, locked, Unwrap(req[w]).id)
    /\ mints' = UpdateStatus(mints, Unwrap(req[w]).id, "Failed", day)
    /\ Goto(w, "recv")
    /\ UNCHANGED << clock, tokens, replica, answer, reply, users, ident, backend, limits, actor, day, nextId, queue, locked, quotas,
                    failures, memory, mutex, chan, depth, closed, call, req,
                    result, ncalls, transfers, admitted, debits, faulted >>

\* A store call of the worker returns Err: `?` ends worker_loop, the
\* Receiver is dropped with whatever it still buffers.
WorkerStorageError(w) ==
    /\ pc[w] \in {"update_status", "record_outcome", "mark_failed"}
    /\ CanFail(backend)
    /\ faulted' = TRUE
    /\ Goto(w, "stopped")
    /\ result' = [result EXCEPT ![w] = "StorageUnavailable"]
    /\ chan' = << >>
    /\ UNCHANGED << clock, tokens, replica, answer, reply, users, ident, backend, limits, actor, day, nextId, mints, queue, locked,
                    quotas, failures, memory, mutex, depth, closed, call,
                    req, ncalls, transfers, admitted, debits >>

(***************************************************************************)
(* Callers of MintRepository::next_pending.                                *)
(***************************************************************************)
\* MemoryStore::next_pending: under the queue mutex, pop until a claimable
\* request is found.
ClaimMemory(c) ==
    /\ pc[c] = "idle"
    /\ backend = "memory"
    /\ queue' = SubSeq(queue, PopCount(queue, mints) + 1, Len(queue))
    /\ IF PopFound(queue, mints)
       THEN /\ mints' = Put(mints, queue[PopCount(queue, mints)],
                            ClaimedRow(mints[queue[PopCount(queue, mints)]], day))
            /\ req' = [req EXCEPT ![c] =
                          Some(ClaimedRow(mints[queue[PopCount(queue, mints)]], day))]
            /\ result' = [result EXCEPT ![c] = "Some"]
       ELSE /\ UNCHANGED << mints, req >>
            /\ result' = [result EXCEPT ![c] = "None"]
    /\ Goto(c, "done")
    /\ UNCHANGED << clock, tokens, replica, answer, reply, users, ident, backend, limits, actor, day, nextId, locked, quotas, failures,
                    memory, mutex, chan, depth, closed, call, ncalls,
                    transfers, admitted, debits, faulted >>

\* MongoStore::next_pending: one find_one_and_update.
ClaimMongo(c) ==
    /\ pc[c] = "idle"
    /\ backend = "mongo"
    /\ IF PendingRows(backend, mints, {}) # {}
       THEN /\ mints' = Put(mints, Oldest(mints, PendingRows(backend, mints, {})),
                            ClaimedRow(mints[Oldest(mints, PendingRows(backend, mints, {}))], day))
            /\ req' = [req EXCEPT ![c] =
                          Some(ClaimedRow(mints[Oldest(mints, PendingRows(backend, mints, {}))], day))]
            /\ result' = [result EXCEPT ![c] = "Some"]
       ELSE /\ UNCHANGED << mints, req >>
            /\ result' = [result EXCEPT ![c] = "None"]
    /\ Goto(c, "done")
    /\ UNCHANGED << clock, tokens, replica, answer, reply, users, ident, backend, limits, actor, day, nextId, queue, locked, quotas,
                    failures, memory, mutex, chan, depth, closed, call,
                    ncalls, transfers, admitted, debits, faulted >>

\* PostgresStore::next_pending, first statement: SELECT .. WHERE status =
\* 'pending' ORDER BY requested_at FOR UPDATE SKIP LOCKED LIMIT 1.  The
\* local copy is updated (Processing, processed_at, attempt + 1).
ClaimSelect(c) ==
    /\ pc[c] = "idle"
    /\ backend = "postgres"
    /\ IF PendingRows(backend, mints, locked) # {}
       THEN /\ locked' = locked \cup {Oldest(mints, PendingRows(backend, mints, locked))}
            /\ req' = [req EXCEPT ![c] =
                          Some(ClaimedRow(mints[Oldest(mints, PendingRows(backend, mints, locked))], day))]
            /\ Goto(c, "commit")
            /\ UNCHANGED result
       ELSE /\ UNCHANGED << locked, req >>
            /\ result' = [result EXCEPT ![c] = "None"]
            /\ Goto(c, "done")
    /\ UNCHANGED << clock, tokens, replica, answer, reply, users, ident, backend, limits, actor, day, nextId, mints, queue, quotas,
                    failures, memory, mutex, chan, depth, closed, call,
                    ncalls, transfers, admitted, debits, faulted >>

\* The relational UPDATE: SET status, processed_at, attempt WHERE id.
ClaimUpdateRow(row, request) ==
    [row EXCEPT !.status = request.status,
                !.processed_at = request.processed_at,
                !.attempt = request.attempt]

\* PostgresStore::next_pending, UPDATE and COMMIT: the row lock is released.
ClaimCommit(c) ==
    /\ pc[c] = "commit"
    /\ mints' = Put(mints, Unwrap(req[c]).id,
                    ClaimUpdateRow(mints[Unwrap(req[c]).id], Unwrap(req[c])))
    /\ locked' = locked \ {Unwrap(req[c]).id}
    /\ result' = [result EXCEPT ![c] = "Some"]
    /\ Goto(c, "done")
    /\ UNCHANGED << clock, tokens, replica, answer, reply, users, ident, backend, limits, actor, day, nextId, queue, quotas, failures,
                    memory, mutex, chan, depth, closed, call, req, ncalls,
                    transfers, admitted, debits, faulted >>

\* next_pending returns Err: nothing is written, an open transaction is
\* rolled back and its row lock released.
ClaimStorageError(c) ==
    /\ pc[c] \in {"idle", "commit"}
    /\ CanFail(backend)
    /\ faulted' = TRUE
    /\ locked' = IF pc[c] = "commit" THEN locked \ {Unwrap(req[c]).id} ELSE locked
    /\ req' = [req EXCEPT ![c] = None]
    /\ result' = [result EXCEPT ![c] = "StorageUnavailable"]
    /\ Goto(c, "done")
    /\ UNCHANGED << clock, tokens, replica, answer, reply, users, ident, backend, limits, actor, day, nextId, mints, queue, quotas,
                    failures, memory, mutex, chan, depth, closed, call,
                    ncalls, transfers, admitted, debits >>

Claim(c) ==
    \/ ClaimMemory(c)
    \/ ClaimMongo(c)
    \/ ClaimSelect(c)
    \/ ClaimCommit(c)

(***************************************************************************)
(* Identities: service.rs touch_user / set_role over UserRepository.       *)
(***************************************************************************)
\* str::to_ascii_lowercase on the strings that occur.
Lower(str) ==
    CASE str = "Bob" -> "bob"
      [] str = "Corp.example" -> "corp.example"
      [] str = "corp.Example" -> "corp.example"
      [] OTHER -> str

Handles == {"Bob", "bob"}
Domains == {None, Some("corp.Example"), Some("other.org")}

\* Identity { channel, handle, domain } as the front ends build it.
Identities == [channel : {"web"}, handle : Handles, domain : Domains]

\* AuthConfig.privileged_domains, and the lower-cased set FaucetService::new
\* keeps.
ConfiguredDomains == {"Corp.example"}
privileged_domains == {Lower(d) : d \in ConfiguredDomains}

\* Uuid::new_v4() of the n-th call of process p.
NewUserId(p, n) == [by |-> p, n |-> n]

\* find_user: the in-memory store keys users by the lower-cased (channel,
\* handle); the relational and document stores compare both as stored.
SameIdentity(b, u, channel, handle) ==
    IF b = "memory"
    THEN Lower(u.channel) = Lower(channel) /\ Lower(u.handle) = Lower(handle)
    ELSE u.channel = channel /\ u.handle = handle

FindUser(b, us, channel, handle) ==
    IF \E u \in us : SameIdentity(b, u, channel, handle)
    THEN Some(CHOOSE u \in us : SameIdentity(b, u, channel, handle))
    ELSE None

\* upsert_user: the in-memory store replaces the entry under the key; the
\* others update the row with the same id or insert one, and the insert is
\* refused by the unique index on (channel, handle).
UpsertAccepted(b, us, user) ==
    \/ b = "memory"
    \/ ~ \E u \in us : /\ u.id # user.id
                       /\ u.channel = user.channel
                       /\ u.handle = user.handle

UpsertUser(b, us, user) ==
    IF b = "memory"
    THEN {u \in us : ~SameIdentity(b, u, user.channel, user.handle)} \cup {user}
    ELSE {u \in us : u.id # user.id} \cup {user}

\* A determine_role without the Admin test.
determine_role_no_admin(existing, domain) ==
    IF IsSome(domain) /\ Lower(Unwrap(domain)) \in privileged_domains
    THEN "Privileged"
    ELSE IF IsSome(existing) THEN Unwrap(existing) ELSE "User"

\* determine_role(existing: Option<&Role>, domain: Option<&str>)
determine_role(existing, domain) ==
    IF existing = Some("Admin") THEN "Admin"
    ELSE IF IsSome(domain) /\ Lower(Unwrap(domain)) \in privileged_domains
         THEN "Privileged"
         ELSE IF IsSome(existing) THEN Unwrap(existing) ELSE "User"

\* The frame of the identity actions: nothing else changes.
IdFrame ==
    UNCHANGED << backend, limits, actor, day, nextId, mints, queue, locked,
                 quotas, failures, memory, mutex, chan, depth, closed, pc,
                 call, req, result, ncalls, transfers, admitted, debits,
                 reply, replica, answer, clock, tokens >>

\* The frame of a set_role that returns: the caller receives Ok(user).
IdFrameReturned ==
    UNCHANGED << backend, limits, actor, day, nextId, mints, queue, locked,
                 quotas, failures, memory, mutex, chan, depth, closed, pc,
                 call, req, result, ncalls, transfers, admitted, debits,
                 replica, answer, clock, tokens >>

\* The call returns r: its arguments and locals are gone.
IdReturn(p, r) ==
    ident' = [ident EXCEPT ![p] = [NoIdent EXCEPT !.n = ident[p].n, !.result = r]]

\* touch_user and set_role calls started so far.
IdCalls == ident["t1"].n + ident["t2"].n + ident["a1"].n

\* touch_user is called: find_user, then the role and domain of the local
\* copy are settled (or a new User is built).
TouchFind(t, identity) ==
    /\ ident[t].pc = "idle"
    /\ IdCalls < MaxIdCalls
    /\ LET found == FindUser(backend, users, identity.channel, identity.handle)
           role  == determine_role(IF IsSome(found) THEN Some(Unwrap(found).role)
                                   ELSE None, identity.domain)
           local == IF IsSome(found)
                    THEN [Unwrap(found) EXCEPT !.role = role,
                                               !.domain = identity.domain]
                    ELSE [id |-> NewUserId(t, ident[t].n + 1),
                          channel |-> identity.channel,
                          handle |-> identity.handle,
                          role |-> role,
                          domain |-> identity.domain]
           changed == IsSome(found) /\ local # Unwrap(found)
       IN  ident' = [ident EXCEPT ![t] =
                       [pc |-> IF changed THEN "upsert_changed" ELSE "upsert",
                        n |-> ident[t].n + 1,
                        args |-> Some(identity),
                        found |-> found,
                        user |-> Some(local),
                        result |-> "none"]]
    /\ UNCHANGED << users, faulted >>
    /\ IdFrame

\* if changed { self.store.upsert_user(&user).await?; }
TouchUpsertChanged(t) ==
    /\ ident[t].pc = "upsert_changed"
    /\ IF UpsertAccepted(backend, users, Unwrap(ident[t].user))
       THEN /\ users' = UpsertUser(backend, users, Unwrap(ident[t].user))
            /\ ident' = [ident EXCEPT ![t].pc = "upsert"]
            /\ UNCHANGED faulted
       ELSE /\ IdReturn(t, "StorageUnavailable")
            /\ faulted' = TRUE
            /\ UNCHANGED users
    /\ IdFrame

\* self.store.upsert_user(&user).await?; Ok(user)
TouchUpsert(t) ==
    /\ ident[t].pc = "upsert"
    /\ IF UpsertAccepted(backend, users, Unwrap(ident[t].user))
       THEN /\ users' = UpsertUser(backend, users, Unwrap(ident[t].user))
            /\ IdReturn(t, "Ok")
            /\ UNCHANGED faulted
       ELSE /\ IdReturn(t, "StorageUnavailable")
            /\ faulted' = TRUE
            /\ UNCHANGED users
    /\ IdFrame

\* A set_role without the Admin test.
ForbiddenNever(actor_role) == FALSE

\* if !matches!(actor.role, Role::Admin)
Forbidden(actor_role) == actor_role # "Admin"

\* set_role is called by an actor with role actor_role: the Admin test, then
\* find_user(..).unwrap_or(new User), user.role = role.
SetRoleBegin(a, actor_role, channel, handle, role) ==
    /\ ident[a].pc = "idle"
    /\ IdCalls < MaxIdCalls
    /\ LET found == FindUser(backend, users, channel, handle)
           local == IF IsSome(found)
                    THEN [Unwrap(found) EXCEPT !.role = role]
                    ELSE [id |-> NewUserId(a, ident[a].n + 1),
                          channel |-> channel, handle |-> handle,
                          role |-> role, domain |-> None]
           args == Some([actor_role |-> actor_role, channel |-> channel,
                         handle |-> handle, role |-> role])
       IN  ident' = [ident EXCEPT ![a] =
                       IF Forbidden(actor_role)
                       THEN [NoIdent EXCEPT !.n = ident[a].n + 1,
                                            !.result = "Forbidden"]
                       ELSE [pc |-> "upsert", n |-> ident[a].n + 1, args |-> args,
                             found |-> found, user |-> Some(local),
                             result |-> "none"]]
    /\ UNCHANGED << users, faulted >>
    /\ IdFrame

\* self.store.upsert_user(&user).await?; Ok(user)
SetRoleUpsert(a) ==
    /\ ident[a].pc = "upsert"
    /\ IF UpsertAccepted(backend, users, Unwrap(ident[a].user))
       THEN /\ users' = UpsertUser(backend, users, Unwrap(ident[a].user))
            /\ IdReturn(a, "Ok")
            /\ reply' = Some([op |-> "set_role", ok |-> TRUE,
                              user |-> Unwrap(ident[a].user)])
            /\ UNCHANGED faulted
       ELSE /\ IdReturn(a, "StorageUnavailable")
            /\ faulted' = TRUE
            /\ UNCHANGED << users, reply >>
    /\ IdFrameReturned

\* A find_user or upsert_user call returns Err for a reason of the backend.
IdStorageError(p) ==
    /\ ident[p].pc \in {"upsert_changed", "upsert"}
    /\ CanFail(backend)
    /\ faulted' = TRUE
    /\ IdReturn(p, "StorageUnavailable")
    /\ UNCHANGED users
    /\ IdFrame

(***************************************************************************)
(* Specifications.                                                         *)
(***************************************************************************)
\* The steps of a mint call after its start.
MintStep(p) ==
    \/ CheckLock(p)
    \/ CheckAdd(p)
    \/ MintRecordMint(p)
    \/ MintRecordMintRejected(p)
    \/ MintEnqueue(p)
    \/ MintUpdateStatus(p)
    \/ MintTransfer(p)
    \/ MintRecordOutcome(p)
    \/ MintLogFailure(p)
    \/ MintStorageError(p)

SubmitStep(s) ==
    \/ SubmitAgain(s)
    \/ SubmitEnqueue(s)
    \/ SubmitSend(s)
    \/ SubmitStorageError(s)

WorkerStep(w) ==
    \/ WorkerRecv(w)
    \/ WorkerUpdateStatus(w)
    \/ WorkerTransfer(w)
    \/ WorkerRecordOutcome(w)
    \/ WorkerMarkFailed(w)
    \/ WorkerStorageError(w)

\* The pipeline: one inline minter, one submitter with the worker behind the
\* queue, and independent next_pending callers, all on one store.
PipelineMinters == {"m1"}
PipelineClaimers == {"c1"}
PipelineAmounts == {50}

Next ==
    \/ \E p \in PipelineMinters, a \in PipelineAmounts : MintBegin(p, actor, a)
    \/ \E p \in PipelineMinters : MintStep(p)
    \/ \E s \in Submitters, a \in PipelineAmounts : SubmitNew(s, actor, a)
    \/ \E s \in Submitters : SubmitStep(s)
    \/ Close
    \/ \E w \in Workers : WorkerStep(w)
    \/ \E c \in PipelineClaimers : Claim(c)
    \/ \E c \in PipelineClaimers : ClaimStorageError(c)

Spec == Init /\ [][Next]_vars

\* The rate limiter: concurrent mint calls of one user with every amount.
NextLimit ==
    \/ \E p \in Minters, a \in Amounts : MintBegin(p, actor, a)
    \/ \E p \in Minters : MintStep(p)

SpecLimit == InitAny /\ [][NextLimit]_vars

\* A ledger holding M <= N Pending requests, each enqueued once (in any
\* order), and N callers of next_pending; nothing else runs.
Orders(n) == {o \in [1..n -> 1..n] : \A i, j \in 1..n : i # j => o[i] # o[j]}

RECURSIVE PreloadMints(_, _, _, _)
PreloadMints(b, u, o, n) ==
    IF n = 0 THEN << >>
    ELSE LET m == PreloadMints(b, u, o, n - 1)
         IN  Put(m, o[n], EnqueueRow(b, Get(m, o[n]),
                                     new_request(u.id, u.channel, 50, o[n], 1)))

RECURSIVE PreloadQueue(_, _, _)
PreloadQueue(b, o, n) ==
    IF n = 0 THEN << >>
    ELSE EnqueueQueue(b, PreloadQueue(b, o, n - 1), o[n])

Min(a, b) == IF a <= b THEN a ELSE b

InitClaim ==
    /\ backend \in Backends
    /\ limits \in LimitConfigs
    /\ IsSome(limits.privileged_daily_cap)
    /\ actor \in Users
    /\ actor.role = "User"
    /\ \E n \in 0..Min(MaxPending, Cardinality(Claimers)) : \E o \in Orders(n) :
          /\ mints = PreloadMints(backend, actor, o, n)
          /\ queue = PreloadQueue(backend, o, n)
          /\ nextId = n + 1
    /\ depth = 1
    /\ day = 1
    /\ locked = {}
    /\ quotas = << >>
    /\ failures = << >>
    /\ chan = << >>
    /\ closed = FALSE
    /\ transfers = [id \in 1..(MaxReq + 1) |-> 0]
    /\ users = {}
    /\ ident = [p \in IdProcs |-> NoIdent]
    /\ reply = None
    /\ replica = [b \in Backends |-> EmptyStore]
    /\ answer = [n |-> 0, op |-> "none", out |-> [b \in Backends |-> "none"]]
    /\ clock = 0
    /\ tokens = {}
    /\ InitTasks

NextClaim ==
    \/ \E c \in Claimers : Claim(c)
    \/ \E c \in Claimers : ClaimStorageError(c)

SpecClaim == InitClaim /\ [][NextClaim]_vars

\* Inline mints of one user across a change of calendar day: Utc::now() is
\* read at the start of check_and_record and again in new_request.
Midnight ==
    /\ day < MaxDay
    /\ day' = day + 1
    /\ UNCHANGED << clock, tokens, replica, answer, reply, users, ident, backend, limits, actor, nextId, mints, queue, locked, quotas,
                    failures, memory, mutex, chan, depth, closed, pc, call,
                    req, result, ncalls, transfers, admitted, debits, faulted >>

DayAmounts == {50, 80}

NextDay ==
    \/ \E p \in PipelineMinters, a \in DayAmounts : MintBegin(p, actor, a)
    \/ \E p \in PipelineMinters : MintStep(p)
    \/ Midnight

SpecDay == InitAny /\ [][NextDay]_vars

\* Inline mints with concurrent next_pending callers on the same store.
InlineClaimers == {"c1", "c2"}

NextInline ==
    \/ \E p \in PipelineMinters, a \in PipelineAmounts : MintBegin(p, actor, a)
    \/ \E p \in PipelineMinters : MintStep(p)
    \/ \E c \in InlineClaimers : Claim(c)
    \/ \E c \in InlineClaimers : ClaimStorageError(c)

SpecInline == Init /\ [][NextInline]_vars

\* MintRepository::enqueue called directly on the store: with a new request,
\* or again with the request of the caller's previous call.  The call is one
\* store operation.
RepoEnqueue(e, r) ==
    /\ pc[e] = "idle"
    /\ ncalls[e] < MaxRepoCalls
    /\ RowFree(backend, locked, r.id)
    /\ mints' = Put(mints, r.id, EnqueueRow(backend, Get(mints, r.id), r))
    /\ queue' = EnqueueQueue(backend, queue, r.id)
    /\ req' = [req EXCEPT ![e] = Some(r)]
    /\ ncalls' = [ncalls EXCEPT ![e] = @ + 1]
    /\ result' = [result EXCEPT ![e] = "Ok"]

RepoEnqueueNew(e) ==
    /\ nextId <= MaxReq
    /\ RepoEnqueue(e, new_request(actor.id, actor.channel, 50, nextId, day))
    /\ nextId' = nextId + 1
    /\ UNCHANGED << clock, tokens, replica, answer, reply, users, ident, backend, limits, actor, day, locked, quotas, failures,
                    memory, mutex, chan, depth, closed, pc, call, transfers,
                    admitted, debits, faulted >>

RepoEnqueueAgain(e) ==
    /\ IsSome(req[e])
    /\ RepoEnqueue(e, Unwrap(req[e]))
    /\ UNCHANGED << clock, tokens, replica, answer, reply, users, ident, backend, limits, actor, day, nextId, locked, quotas,
                    failures, memory, mutex, chan, depth, closed, pc, call,
                    transfers, admitted, debits, faulted >>

\* Requests are enqueued (some of them twice); once the enqueues are over,
\* next_pending callers claim.
EnqueuesOver == \A e \in Enqueuers : ncalls[e] = MaxRepoCalls

NextEnqueue ==
    \/ \E e \in Enqueuers : RepoEnqueueNew(e)
    \/ \E e \in Enqueuers : RepoEnqueueAgain(e)
    \/ EnqueuesOver /\ \E c \in Claimers : Claim(c)
    \/ EnqueuesOver /\ \E c \in Claimers : ClaimStorageError(c)

SpecEnqueue == InitAny /\ [][NextEnqueue]_vars

\* MintRepository::record_outcome called directly on the store with the
\* outcome of minter p's finished call (the MintOutcome that record_outcome
\* was given inside mint), for instance by a caller repeating the write.
RepoRecordOutcome(e, p) ==
    /\ pc[e] = "idle"
    /\ ncalls[e] < MaxRepoCalls
    /\ pc[p] = "idle"
    /\ result[p] \in {"Ok", "TransferFailed"}
    /\ IsSome(req[p])
    /\ RowFree(backend, locked, Unwrap(req[p]).id)
    /\ mints' = RecordOutcomeMints(backend, mints, Outcome(Unwrap(req[p])), day)
    /\ quotas' = RecordOutcomeQuotas(backend, quotas, Outcome(Unwrap(req[p])))
    /\ ncalls' = [ncalls EXCEPT ![e] = @ + 1]
    /\ result' = [result EXCEPT ![e] = "Ok"]
    /\ UNCHANGED << clock, tokens, replica, answer, reply, users, ident, backend, limits, actor, day, nextId, queue, locked, failures,
                    memory, mutex, chan, depth, closed, pc, call, req,
                    transfers, admitted, debits, faulted >>

NextOutcome ==
    \/ \E p \in PipelineMinters, a \in DayAmounts : MintBegin(p, actor, a)
    \/ \E p \in PipelineMinters : MintStep(p)
    \/ \E e \in Enqueuers, p \in PipelineMinters : RepoRecordOutcome(e, p)

SpecOutcome == InitAny /\ [][NextOutcome]_vars

\* Concurrent touch_user and set_role calls on one identity store.
NextIdentity ==
    \/ \E t \in Touchers, i \in Identities : TouchFind(t, i)
    \/ \E t \in Touchers : TouchUpsertChanged(t)
    \/ \E t \in Touchers : TouchUpsert(t)
    \/ \E a \in RoleSetters, ar \in Role, h \in Handles, r \in Role :
          SetRoleBegin(a, ar, "web", h, r)
    \/ \E a \in RoleSetters : SetRoleUpsert(a)
    \/ \E p \in IdProcs : IdStorageError(p)

InitIdentity ==
    /\ backend \in Backends
    /\ limits \in LimitConfigs
    /\ IsSome(limits.privileged_daily_cap)
    /\ actor \in Users
    /\ actor.role = "User"
    /\ InitStore
    /\ InitTasks

SpecIdentity == InitIdentity /\ [][NextIdentity]_vars

\* set_role calls with one concurrent touch_user caller.
SetRoleTouchers == {"t1"}

NextSetRole ==
    \/ \E t \in SetRoleTouchers, i \in Identities : TouchFind(t, i)
    \/ \E t \in SetRoleTouchers : TouchUpsertChanged(t)
    \/ \E t \in SetRoleTouchers : TouchUpsert(t)
    \/ \E a \in RoleSetters, ar \in Role, h \in Handles, r \in Role :
          SetRoleBegin(a, ar, "web", h, r)
    \/ \E a \in RoleSetters : SetRoleUpsert(a)
    \/ \E p \in SetRoleTouchers \cup RoleSetters : IdStorageError(p)

SpecSetRole == InitIdentity /\ [][NextSetRole]_vars

\* quota_snapshot calls on a store whose quota ledger is also written by
\* record_mint calls of other service instances (every front end builds its
\* own FaucetService and RateLimiter over the shared database).
SnapshotAmounts == {50, 80, 120}

SnapshotUsers == Users \cup {[id |-> "u1", channel |-> "web", role |-> "Admin"]}

\* QuotaRepository::record_mint(actor.id, today, a) by another instance.
RepoRecordMint(e, a) ==
    /\ pc[e] = "idle"
    /\ ncalls[e] < MaxRepoCalls
    /\ quotas' = IF RecordMintAccepted(backend)
                 THEN RecordMint(quotas, actor.id, day, a) ELSE quotas
    /\ ncalls' = [ncalls EXCEPT ![e] = @ + 1]
    /\ result' = [result EXCEPT ![e] =
                     IF RecordMintAccepted(backend) THEN "Ok" ELSE "Err"]
    /\ UNCHANGED << clock, tokens, replica, answer, reply, users, ident, backend, limits, actor, day, nextId,
                    mints, queue, locked, failures, memory, mutex, chan,
                    depth, closed, pc, call, req, transfers, admitted,
                    debits, faulted >>

\* quota_snapshot(user) returns Ok(QuotaSnapshot); the front end then calls
\* remaining() on it.
QuotaSnapshotCall(user) ==
    /\ LET snap == quota_snapshot(quotas, limits, user, day)
       IN  reply' = Some([op |-> "quota_snapshot", ok |-> TRUE, user |-> user,
                          today |-> day, minted |-> snap.minted,
                          cap |-> snap.cap, remaining |-> remaining(snap)])
    /\ UNCHANGED << clock, tokens, replica, answer, users, ident, backend, limits, actor, day, nextId, mints,
                    queue, locked, quotas, failures, memory, mutex, chan,
                    depth, closed, pc, call, req, result, ncalls, transfers,
                    admitted, debits, faulted >>

\* fetch_quota returns Err: quota_snapshot returns it.
QuotaSnapshotError(user) ==
    /\ CanFail(backend)
    /\ reply' = Some([op |-> "quota_snapshot", ok |-> FALSE, user |-> user,
                      today |-> day])
    /\ faulted' = TRUE
    /\ UNCHANGED << clock, tokens, replica, answer, users, ident, backend, limits, actor, day, nextId, mints,
                    queue, locked, quotas, failures, memory, mutex, chan,
                    depth, closed, pc, call, req, result, ncalls, transfers,
                    admitted, debits >>

NextSnapshot ==
    \/ \E e \in Enqueuers, a \in SnapshotAmounts : RepoRecordMint(e, a)
    \/ Midnight
    \/ \E u \in SnapshotUsers : QuotaSnapshotCall(u)
    \/ \E u \in SnapshotUsers : QuotaSnapshotError(u)

SpecSnapshot == InitAny /\ [][NextSnapshot]_vars

\* daily_summary: the requests whose requested_at falls on day d, by channel.
RequestsOn(m, d, channel) ==
    {id \in DOMAIN m : date_naive(m[id].requested_at) = d /\ m[id].channel = channel}

ChannelsOn(m, d) ==
    {m[id].channel : id \in {i \in DOMAIN m : date_naive(m[i].requested_at) = d}}

RECURSIVE SumAmount(_, _)
SumAmount(m, ids) ==
    IF ids = {} THEN 0
    ELSE LET id == CHOOSE i \in ids : TRUE
         IN  m[id].amount + SumAmount(m, ids \ {id})

CountStatus(m, ids, status) == Cardinality({id \in ids : m[id].status = status})

\* daily_summary(day).  In-memory: one pass over the mints.  Relational:
\* SUM(amount) over a BIGINT column is NUMERIC and is read with
\* try_get::<i64, _>, which sqlx refuses as a type mismatch, so the first
\* group row makes the call return Err.  Document: the two counts are $sum
\* over the Int32 literals 1 and 0, an Int32, read with get_i64(..)
\* .unwrap_or(0), which gives 0.
daily_summary(b, m, d) ==
    CASE b = "memory" ->
            [ok |-> TRUE,
             rows |-> [c \in ChannelsOn(m, d) |->
                         [total_amount |-> SumAmount(m, RequestsOn(m, d, c)),
                          success_count |-> CountStatus(m, RequestsOn(m, d, c), "Completed"),
                          failure_count |-> CountStatus(m, RequestsOn(m, d, c), "Failed")]]]
      [] b = "postgres" ->
            IF ChannelsOn(m, d) = {}
            THEN [ok |-> TRUE, rows |-> << >>]
            ELSE [ok |-> FALSE, rows |-> << >>]
      [] OTHER ->
            [ok |-> TRUE,
             rows |-> [c \in ChannelsOn(m, d) |->
                         [total_amount |-> SumAmount(m, RequestsOn(m, d, c)),
                          success_count |-> 0,
                          failure_count |-> 0]]]

\* The reporting job: store.daily_summary(d) for today or an earlier day.
DailySummaryCall(d) ==
    /\ d <= day
    /\ LET r == daily_summary(backend, mints, d)
       IN  reply' = Some([op |-> "daily_summary", ok |-> r.ok, day |-> d,
                          rows |-> r.rows,
                          error |-> IF r.ok THEN None ELSE Some("ColumnDecode")])
    /\ UNCHANGED << clock, tokens, replica, answer, users, ident, backend, limits, actor, day, nextId, mints,
                    queue, locked, quotas, failures, memory, mutex, chan,
                    depth, closed, pc, call, req, result, ncalls, transfers,
                    admitted, debits, faulted >>

\* The query fails for a reason of the backend (connectivity).
DailySummaryError(d) ==
    /\ d <= day
    /\ CanFail(backend)
    /\ reply' = Some([op |-> "daily_summary", ok |-> FALSE, day |-> d,
                      rows |-> << >>, error |-> Some("StorageUnavailable")])
    /\ faulted' = TRUE
    /\ UNCHANGED << clock, tokens, replica, answer, users, ident, backend, limits, actor, day, nextId, mints,
                    queue, locked, quotas, failures, memory, mutex, chan,
                    depth, closed, pc, call, req, result, ncalls, transfers,
                    admitted, debits >>

\* Inline mints over two days, with the reporting job reading the ledger.
NextReport ==
    \/ \E p \in PipelineMinters, a \in DayAmounts : MintBegin(p, actor, a)
    \/ \E p \in PipelineMinters : MintStep(p)
    \/ Midnight
    \/ \E d \in 1..MaxDay : DailySummaryCall(d)
    \/ \E d \in 1..MaxDay : DailySummaryError(d)

SpecReport == InitAny /\ [][NextReport]_vars

\* Decoupled mode while every store call returns Ok: submitters, the queue and
\* the worker task, which tokio keeps scheduling while it can take a step.
WorkerRun(w) ==
    \/ WorkerRecv(w)
    \/ WorkerUpdateStatus(w)
    \/ WorkerTransfer(w)
    \/ WorkerRecordOutcome(w)
    \/ WorkerMarkFailed(w)

NextLive ==
    \/ \E s \in Submitters, a \in PipelineAmounts : SubmitNew(s, actor, a)
    \/ \E s \in Submitters : SubmitAgain(s)
    \/ \E s \in Submitters : SubmitEnqueue(s)
    \/ \E s \in Submitters : SubmitSend(s)
    \/ Close
    \/ \E w \in Workers : WorkerRun(w)

SpecLive ==
    /\ InitAny
    /\ [][NextLive]_vars
    /\ \A w \in Workers : WF_vars(WorkerRun(w))

\* Callers that keep polling next_pending while time passes: a caller whose
\* call has returned calls again (a claimed request is not driven further, as
\* when its worker crashed), every store call returns Ok.
ClaimRetry(c) ==
    /\ pc[c] = "done"
    /\ Goto(c, "idle")
    /\ req' = [req EXCEPT ![c] = None]
    /\ result' = [result EXCEPT ![c] = "none"]
    /\ UNCHANGED << clock, tokens, replica, answer, reply, users, ident, backend, limits, actor, day, nextId,
                    mints, queue, locked, quotas, failures, memory, mutex,
                    chan, depth, closed, call, ncalls, transfers, admitted,
                    debits, faulted >>

NextReclaim ==
    \/ \E c \in Claimers : Claim(c)
    \/ \E c \in Claimers : ClaimRetry(c)
    \/ Midnight

SpecReclaim ==
    /\ InitClaim
    /\ [][NextReclaim]_vars
    /\ \A c \in Claimers : WF_vars(Claim(c)) /\ WF_vars(ClaimRetry(c))
    /\ WF_vars(Midnight)

(***************************************************************************)
(* The same history of repository calls given to one store of each         *)
(* backend (db/mod.rs: DatabaseStore dispatches each call to the backend   *)
(* it was built with).  Calls are sequential and none fails for            *)
(* connectivity; user ids in mint and quota calls name users the           *)
(* relational schema's foreign keys accept.                                *)
(***************************************************************************)
\* next_pending as one call: the request returned and the ledger left.
NextPending(b, st, now) ==
    IF b = "memory"
    THEN IF PopFound(st.queue, st.mints)
         THEN LET id == st.queue[PopCount(st.queue, st.mints)]
              IN  [out |-> Some(ClaimedRow(st.mints[id], now)),
                   store |-> [st EXCEPT
                                !.mints = Put(st.mints, id, ClaimedRow(st.mints[id], now)),
                                !.queue = SubSeq(st.queue, PopCount(st.queue, st.mints) + 1,
                                                 Len(st.queue))]]
         ELSE [out |-> None,
               store |-> [st EXCEPT !.queue = SubSeq(st.queue,
                                                      PopCount(st.queue, st.mints) + 1,
                                                      Len(st.queue))]]
    ELSE IF PendingRows(b, st.mints, {}) # {}
         THEN LET id == Oldest(st.mints, PendingRows(b, st.mints, {}))
              IN  [out |-> Some(ClaimedRow(st.mints[id], now)),
                   store |-> [st EXCEPT
                                !.mints = Put(st.mints, id, ClaimedRow(st.mints[id], now))]]
         ELSE [out |-> None, store |-> st]

\* The users, the request and the outcome the calls are made with.
StoreUsers ==
    { [id |-> NewUserId("t1", 1), channel |-> "web", handle |-> "Bob",
       role |-> "User", domain |-> None],
      [id |-> NewUserId("t1", 1), channel |-> "web", handle |-> "Bob",
       role |-> "Admin", domain |-> None],
      [id |-> NewUserId("t2", 1), channel |-> "web", handle |-> "Bob",
       role |-> "User", domain |-> None] }

StoreRequest == new_request("u1", "web", 50, 1, 1)

StoreOutcome ==
    Outcome([StoreRequest EXCEPT !.status = "Completed",
                                 !.tx_hash = Some(TxHash(1, 1)),
                                 !.processed_at = Some(1),
                                 !.attempt = 1])

\* One repository call op applied to the store st of backend b.
StoreCall(b, st, op) ==
    CASE op.name = "upsert_user" ->
            IF UpsertAccepted(b, st.users, op.user)
            THEN [out |-> "Ok",
                  store |-> [st EXCEPT !.users = UpsertUser(b, st.users, op.user)]]
            ELSE [out |-> "Err", store |-> st]
      [] op.name = "find_user" ->
            [out |-> FindUser(b, st.users, "web", op.handle), store |-> st]
      [] op.name = "enqueue" ->
            [out |-> "Ok",
             store |-> [st EXCEPT
                          !.mints = Put(st.mints, StoreRequest.id,
                                        EnqueueRow(b, Get(st.mints, StoreRequest.id),
                                                   StoreRequest)),
                          !.queue = EnqueueQueue(b, st.queue, StoreRequest.id)]]
      [] op.name = "next_pending" -> NextPending(b, st, day)
      [] op.name = "update_status" ->
            [out |-> "Ok",
             store |-> [st EXCEPT !.mints = UpdateStatus(st.mints, StoreRequest.id,
                                                         op.status, day)]]
      [] op.name = "record_outcome" ->
            [out |-> "Ok",
             store |-> [st EXCEPT
                          !.mints = RecordOutcomeMints(b, st.mints, StoreOutcome, day),
                          !.quotas = RecordOutcomeQuotas(b, st.quotas, StoreOutcome)]]
      [] op.name = "record_mint" ->
            IF RecordMintAccepted(b)
            THEN [out |-> "Ok",
                  store |-> [st EXCEPT
                               !.quotas = RecordMint(st.quotas, "u1", 1, 50)]]
            ELSE [out |-> "Err", store |-> st]
      [] op.name = "fetch_quota" ->
            [out |-> FetchQuota(st.quotas, "u1", 1), store |-> st]

StoreOps ==
    [name : {"upsert_user"}, user : StoreUsers]
       \cup [name : {"find_user"}, handle : Handles]
       \cup [name : {"enqueue", "next_pending", "record_outcome", "record_mint",
                     "fetch_quota"}]
       \cup [name : {"update_status"}, status : {"Processing"}]

\* The call op is made on every store.
StoreStep(op) ==
    /\ answer.n < MaxStoreOps
    /\ replica' = [b \in Backends |-> StoreCall(b, replica[b], op).store]
    /\ answer' = [n |-> answer.n + 1, op |-> op.name,
                  out |-> [b \in Backends |-> StoreCall(b, replica[b], op).out]]
    /\ UNCHANGED << clock, tokens, reply, users, ident, backend, limits, actor,
                    day, nextId, mints, queue, locked, quotas, failures,
                    memory, mutex, chan, depth, closed, pc, call, req,
                    result, ncalls, transfers, admitted, debits, faulted >>

NextStores == \E op \in StoreOps : StoreStep(op)

SpecStores == InitAny /\ [][NextStores]_vars

(***************************************************************************)
(* web/src/jwt.rs: JwtService.                                             *)
(***************************************************************************)
\* Channel::as_str and Role::as_str (models.rs).
channel_as_str(c) ==
    CASE c = "Web" -> "web"
      [] c = "Telegram" -> "telegram"
      [] OTHER -> "discord"

\* A Role::as_str that returns the variant's name.
role_as_str_variant(r) == r

role_as_str(r) ==
    CASE r = "User" -> "user"
      [] r = "Privileged" -> "privileged"
      [] OTHER -> "admin"

\* Duration::hours(h) in seconds.
Hour == 3600
hours(h) == h * Hour

\* The secret the service was built with, and another one.
ServiceSecret == "test-secret"
Secrets == {ServiceSecret, "other-secret"}

\* HS256: the signature is determined by the payload and the key, and
\* verification recomputes it with the decoding key.
Sign(claims, key) == << claims, key >>

\* encode(&Header::default(), &claims, &self.encoding_key)
encode(claims, key) == [payload |-> claims, sig |-> Sign(claims, key)]

\* generate_token
generate_token(key, user_id, handle, channel, domain, role, expiry_hours, now) ==
    encode([sub |-> user_id,
            handle |-> handle,
            channel |-> channel_as_str(channel),
            domain |-> domain,
            role |-> role_as_str(role),
            exp |-> now + hours(expiry_hours),
            iat |-> now], key)

\* Validation::leeway: 60 seconds by default in current releases of the
\* jsonwebtoken crate, 0 in older ones.
Leeways == {0, 60}

\* decode::<Claims>(token, &self.decoding_key, &self.validation): signature,
\* then exp against now - leeway.
decode(token, key, leeway, now) ==
    /\ token.sig = Sign(token.payload, key)
    /\ ~ (token.payload.exp < now - leeway)

\* verify_token: decode, then `if token_data.claims.exp < now { bail }`.
verify_token(token, key, leeway, now) ==
    IF decode(token, key, leeway, now) /\ ~ (token.payload.exp < now)
    THEN [ok |-> TRUE, claims |-> Some(token.payload)]
    ELSE [ok |-> FALSE, claims |-> None]

\* Arguments of generate_token.
JwtArgs ==
    [user_id : {"u1"}, handle : {"Bob"}, channel : {"Web", "Telegram"},
     domain : {None, Some("corp.Example")}, role : Role,
     expiry_hours : {0, 1}]

\* The instants at which calls are made.
Instants == {0, 1, Hour - 1, Hour, Hour + 1}

Tick ==
    /\ \E t \in Instants : t > clock /\ clock' = t
    /\ UNCHANGED << tokens, replica, answer, reply, users, ident, backend,
                    limits, actor, day, nextId, mints, queue, locked, quotas,
                    failures, memory, mutex, chan, depth, closed, pc, call,
                    req, result, ncalls, transfers, admitted, debits,
                    faulted >>

\* A token is generated with key `key` (the service's, or a stranger's).
GenerateToken(key, args) ==
    /\ Cardinality(tokens) < MaxTokens
    /\ tokens' = tokens \cup
          {[args |-> args, key |-> key, at |-> clock,
            token |-> generate_token(key, args.user_id, args.handle,
                                     args.channel, args.domain, args.role,
                                     args.expiry_hours, clock)]}
    /\ UNCHANGED << clock, replica, answer, reply, users, ident, backend,
                    limits, actor, day, nextId, mints, queue, locked, quotas,
                    failures, memory, mutex, chan, depth, closed, pc, call,
                    req, result, ncalls, transfers, admitted, debits,
                    faulted >>

\* The service verifies an issued token.
VerifyToken ==
    /\ \E t \in tokens, leeway \in Leeways :
          LET r == verify_token(t.token, ServiceSecret, leeway, clock)
          IN  reply' = Some([op |-> "verify_token", issued |-> t, now |-> clock,
                             ok |-> r.ok, claims |-> r.claims])
    /\ UNCHANGED << clock, tokens, replica, answer, users, ident, backend,
                    limits, actor, day, nextId, mints, queue, locked, quotas,
                    failures, memory, mutex, chan, depth, closed, pc, call,
                    req, result, ncalls, transfers, admitted, debits,
                    faulted >>

NextJwt ==
    \/ Tick
    \/ \E key \in Secrets, args \in JwtArgs : GenerateToken(key, args)
    \/ VerifyToken

InitJwt ==
    /\ backend = "memory"
    /\ limits \in LimitConfigs
    /\ IsSome(limits.privileged_daily_cap)
    /\ actor \in Users
    /\ actor.role = "User"
    /\ InitStore
    /\ InitTasks

SpecJwt == InitJwt /\ [][NextJwt]_vars

(***************************************************************************)
(* Properties.                                                             *)
(***************************************************************************)
\* What the configuration says about the calling user's role.
ConfiguredCeiling ==
    IF actor.role = "User" THEN limits.default_amount ELSE limits.privileged_amount

ConfiguredCap ==
    IF actor.role = "User" THEN Some(limits.default_daily_cap)
    ELSE limits.privileged_daily_cap

AllIdle == \A p \in Minters : pc[p] = "idle"

\* C1: N concurrent next_pending calls against M <= N Pending requests, each
\* enqueued once: no two callers hold the same request id, and once every
\* call has returned (none with a storage error) every request has been
\* returned to a caller and none is left Pending.  All three backends.
C1_EachPendingOnce ==
    /\ \A c1, c2 \in Claimers :
          (c1 # c2 /\ IsSome(req[c1]) /\ IsSome(req[c2]))
             => Unwrap(req[c1]).id # Unwrap(req[c2]).id
    /\ (\A c \in Claimers : pc[c] = "done" /\ result[c] # "StorageUnavailable")
          => \A id \in DOMAIN mints :
                /\ mints[id].status # "Pending"
                /\ \E c \in Claimers : result[c] = "Some" /\ Unwrap(req[c]).id = id

C1_Witness ==
    /\ backend = "postgres"
    /\ Cardinality(DOMAIN mints) = 3
    /\ \A c \in Claimers : pc[c] = "done" /\ result[c] = "Some"

\* An inline mint call drives request id: from its enqueue to its
\* record_outcome.
Driving(p, id) ==
    /\ pc[p] \in {"update_status", "transfer", "record_outcome"}
    /\ IsSome(req[p])
    /\ Unwrap(req[p]).id = id

\* C2: while a request is driven by an inline mint call, no next_pending
\* call returns that request.
C2_NeverClaimsDriven ==
    [][\A c \in Claimers :
          (result[c] # "Some" /\ result'[c] = "Some")
             => ~ \E p \in Minters : Driving(p, Unwrap(req'[c]).id)]_vars

\* C3: a stored status that is Completed or Failed never changes again.
C3_TerminalIsFinal ==
    [][\A id \in DOMAIN mints :
          mints[id].status \in Terminal
             => mints'[id].status = mints[id].status]_vars

\* C4: every stored Completed request has tx_hash and processed_at set, every
\* stored Failed request has error and processed_at set.
C4_TerminalFields ==
    \A id \in DOMAIN mints :
       /\ mints[id].status = "Completed"
             => IsSome(mints[id].tx_hash) /\ IsSome(mints[id].processed_at)
       /\ mints[id].status = "Failed"
             => IsSome(mints[id].error) /\ IsSome(mints[id].processed_at)

\* C5: processed_at is set iff the status is Completed or Failed, and tx_hash
\* is set iff the status is Completed.
C5_ProcessedAtIffTerminal ==
    \A id \in DOMAIN mints :
       /\ IsSome(mints[id].processed_at) <=> mints[id].status \in Terminal
       /\ IsSome(mints[id].tx_hash) <=> mints[id].status = "Completed"

\* C6: for a capped role, a call whose amount keeps the day's cumulative
\* admitted total within the cap passes the daily-cap check; a call that
\* would exceed it returns DailyCapReached and leaves the in-process counter,
\* the durable quota and the admitted total unchanged.
C6_Decision(p) ==
    (pc[p] = "lock" /\ pc'[p] # "lock") =>
       LET k == CallKey(p)
           total == CounterValue(admitted, k)
       IN  IF total + call[p].amount <= Unwrap(ConfiguredCap)
           THEN /\ pc'[p] = "add"
                /\ CounterValue(admitted', k) = total + call[p].amount
           ELSE /\ pc'[p] = "idle"
                /\ result'[p] = "DailyCapReached"
                /\ CounterValue(memory', k) = CounterValue(memory, k)
                /\ quotas' = quotas
                /\ admitted' = admitted

\* With no call in flight and no storage error, the durable minted_total and
\* the in-process counter both equal the admitted total, and remaining is the
\* cap less that total (ceiling 100, cap 150: after Mint(80), minted_today =
\* 80 and remaining = 70).
C6_Totals ==
    (AllIdle /\ ~faulted) =>
       \A k \in DOMAIN admitted :
          LET snap == quota_snapshot(quotas, limits, actor, k[2])
          IN  /\ snap.minted = admitted[k]
              /\ CounterValue(memory, k) = admitted[k]
              /\ remaining(snap) = Some(Unwrap(ConfiguredCap) - admitted[k])
              /\ (actor.role = "User" /\ admitted[k] = 80)
                    => snap.minted = 80 /\ remaining(snap) = Some(70)

C6_DailyCap == [](C6_Totals) /\ [][\A p \in Minters : C6_Decision(p)]_vars

\* Mint(80) succeeded, a second Mint(80) was rejected, minted_today is 80.
C6_Witness ==
    /\ actor.role = "User"
    /\ AllIdle /\ ~faulted
    /\ \E p \in Minters : result[p] = "DailyCapReached"
    /\ quota_snapshot(quotas, limits, actor, day).minted = 80
    /\ remaining(quota_snapshot(quotas, limits, actor, day)) = Some(70)

\* C7: the cap comparison and the increment are one critical section: at most
\* one call is between them, and neither the sum of the amounts admitted for
\* (user, day) nor the in-process counter ever exceeds the daily cap.
C7_NoOvershoot ==
    /\ Cardinality({p \in Minters : pc[p] = "add"}) <= 1
    /\ IsSome(ConfiguredCap) =>
          \A k \in DOMAIN admitted :
             /\ admitted[k] <= Unwrap(ConfiguredCap)
             /\ CounterValue(memory, k) <= admitted[k]

\* One call holds the mutex between check and increment while another, whose
\* amount would overshoot the cap, waits for it.
C7_Witness ==
    /\ pc["m1"] = "add"
    /\ pc["m2"] = "lock"
    /\ call["m1"].amount + call["m2"].amount > Unwrap(ConfiguredCap)

\* C8: a mint call with an amount above the role's ceiling returns
\* AmountExceedsRoleLimit and changes nothing.
C8_CeilingRejects ==
    [][\A p \in Minters : \A a \in Amounts :
          (a > ConfiguredCeiling /\ MintBegin(p, actor, a))
             => /\ result'[p] = "AmountExceedsRoleLimit"
                /\ pc'[p] = "idle"
                /\ UNCHANGED << mints, queue, locked, quotas, failures,
                                memory, mutex, admitted, transfers, nextId,
                                chan >>]_vars

C8_Witness ==
    /\ \E p \in Minters : result[p] = "AmountExceedsRoleLimit"
    /\ actor.role = "Privileged"

\* C9: the step at which check_and_record returns Ok adds exactly the amount
\* to minted_total of (user, today) and is the call's only record_mint; a
\* rejection leaves the in-process counter and the quota ledger as they were.
C9_Step(p) ==
    /\ (pc[p] = "record_mint" /\ pc'[p] = "enqueue") =>
          LET k == CallKey(p)
              before == IF k \in DOMAIN quotas THEN quotas[k].minted_total ELSE 0
          IN  /\ k \in DOMAIN quotas'
              /\ quotas'[k].minted_total = before + call[p].amount
              /\ \A o \in DOMAIN quotas : o # k => quotas'[o] = quotas[o]
              /\ DOMAIN quotas' = DOMAIN quotas \cup {k}
              /\ debits[p] = 0 /\ debits'[p] = 1
    /\ ((pc[p] = "lock" \/ \E a \in Amounts : MintBegin(p, actor, a))
          /\ pc'[p] = "idle"
          /\ result'[p] \in {"AmountExceedsRoleLimit", "DailyCapReached"}) =>
          /\ quotas' = quotas
          /\ \A k \in DOMAIN memory' : CounterValue(memory', k) = CounterValue(memory, k)

C9_DebitFrame == [][\A p \in Minters : C9_Step(p)]_vars

\* A second admitted call has been debited on top of the first.
C9_Witness ==
    \E p \in Minters :
       /\ pc[p] = "enqueue"
       /\ << actor.id, day >> \in DOMAIN quotas
       /\ quotas[<< actor.id, day >>].minted_total = 130

\* C10: mint with amount 0 returns InvalidAmount and nothing else happens:
\* no limiter state, no quota, no request, no transfer.
C10_ZeroRejected ==
    [][\A p \in Minters :
          MintBegin(p, actor, 0)
             => /\ result'[p] = "InvalidAmount"
                /\ pc'[p] = "idle"
                /\ UNCHANGED << mints, queue, locked, quotas, failures,
                                memory, mutex, admitted, transfers, nextId,
                                chan >>]_vars

C10_Witness == \E p \in Minters : result[p] = "InvalidAmount"

\* Entries of the MintFailure log for a request id.
FailuresOf(log, id) == {i \in 1..Len(log) : log[i].request_id = id}

\* C11: on the step at which an inline mint returns the transfer's error, the
\* ledger already held the request as Failed with error and processed_at set
\* before the log entry was appended, still holds it so, and the MintFailure
\* log now contains exactly one entry for the request (none before the step).
C11_Step(p) ==
    (pc[p] # "idle" /\ pc'[p] = "idle" /\ result'[p] = "TransferFailed") =>
       LET id == Unwrap(req[p]).id
       IN  /\ id \in DOMAIN mints
           /\ mints[id].status = "Failed"
           /\ IsSome(mints[id].error)
           /\ IsSome(mints[id].processed_at)
           /\ mints'[id] = mints[id]
           /\ FailuresOf(failures, id) = {}
           /\ Cardinality(FailuresOf(failures', id)) = 1

C11_FailedBeforeError == [][\A p \in Minters : C11_Step(p)]_vars

C11_Witness ==
    \E p \in Minters :
       /\ pc[p] = "idle"
       /\ result[p] = "TransferFailed"
       /\ Cardinality(FailuresOf(failures, Unwrap(req[p]).id)) = 1
       /\ mints[Unwrap(req[p]).id].status = "Failed"

\* success_count stored for a quota key (0 when there is no entry).
SuccessCount(q, k) == IF k \in DOMAIN q THEN q[k].success_count ELSE 0

\* C12: on the step at which an inline mint returns Ok(outcome), the stored
\* request goes from Processing to Completed carrying the returned tx
\* reference, processed_at and attempt = 1, and success_count of (user, the
\* request's day) is one more than before; stored statuses only ever move
\* Pending -> Processing -> Completed or Failed.
C12_Step(p) ==
    (pc[p] # "idle" /\ pc'[p] = "idle" /\ result'[p] = "Ok") =>
       LET r == Unwrap(req[p])
           k == << r.user_id, r.requested_at.day >>
       IN  /\ r.id \in DOMAIN mints
           /\ mints[r.id].status = "Processing"
           /\ mints'[r.id].status = "Completed"
           /\ IsSome(r.tx_hash)
           /\ mints'[r.id].tx_hash = r.tx_hash
           /\ IsSome(mints'[r.id].processed_at)
           /\ mints'[r.id].attempt = 1
           /\ SuccessCount(quotas', k) = SuccessCount(quotas, k) + 1

C12_Order ==
    \A id \in DOMAIN mints' :
       IF id \in DOMAIN mints
       THEN \/ mints'[id].status = mints[id].status
            \/ << mints[id].status, mints'[id].status >> \in
                  { << "Pending", "Processing" >>, << "Processing", "Completed" >>,
                    << "Processing", "Failed" >> }
       ELSE mints'[id].status = "Pending"

C12_CompletedBeforeOk == [][C12_Order /\ \A p \in Minters : C12_Step(p)]_vars

\* C13: a mint call that has moved its request to Processing returns to its
\* caller (with any result) only when the stored status of the request is
\* Completed or Failed.
C13_Step(p) ==
    (pc[p] \in {"transfer", "record_outcome", "log_failure"} /\ pc'[p] = "idle") =>
       /\ Unwrap(req[p]).id \in DOMAIN mints'
       /\ mints'[Unwrap(req[p]).id].status \in Terminal

C13_TerminalBeforeReturn == [][\A p \in Minters : C13_Step(p)]_vars

\* C14: submit_transfer is invoked at most once for every request id, inline
\* mints and the worker counted together, and a mint rejected before its
\* request is persisted invokes it not at all.
C14_Rejected(p) ==
    ((pc[p] \in {"lock", "record_mint"} \/ \E a \in Amounts : MintBegin(p, actor, a))
       /\ pc'[p] = "idle")
       => transfers' = transfers

C14_TransferAtMostOnce ==
    /\ [](\A id \in DOMAIN transfers : transfers[id] <= 1)
    /\ [][\A p \in Minters : C14_Rejected(p)]_vars

\* next_pending callers that were handed request id.
ClaimedBy(id) ==
    {c \in Claimers : result[c] = "Some" /\ IsSome(req[c]) /\ Unwrap(req[c]).id = id}

\* C15: enqueue called again with the same request leaves the ledger as the
\* first call left it (one entry for the id), and a request enqueued twice is
\* afterwards handed out by next_pending at most once.
C15_Again(e) ==
    (IsSome(req[e]) /\ RepoEnqueue(e, Unwrap(req[e]))) => mints' = mints

C15_EnqueueIdempotent ==
    /\ [][\A e \in Enqueuers : C15_Again(e)]_vars
    /\ [](\A id \in DOMAIN mints : Cardinality(ClaimedBy(id)) <= 1)

\* C16: record_outcome applied again with the MintOutcome it has already
\* recorded leaves the mint ledger and the quota ledger as they were.
C16_RecordOutcomeIdempotent ==
    [][\A e \in Enqueuers, p \in Minters :
          RepoRecordOutcome(e, p) => (mints' = mints /\ quotas' = quotas)]_vars

\* C17: the request a next_pending call picks has the smallest requested_at
\* among the requests stored as Pending when it picks (rows that another
\* open next_pending transaction has already picked and locked set aside).
C17_Pick(c) ==
    (~IsSome(req[c]) /\ IsSome(req'[c])) =>
       \A o \in DOMAIN mints :
          (mints[o].status = "Pending" /\ o \notin locked)
             => Before(Unwrap(req'[c]).requested_at, mints[o].requested_at)

C17_OldestFirst == [][\A c \in Claimers : C17_Pick(c)]_vars

\* The supplied domain equals a configured privileged domain up to letter
\* case ("corp.Example" against the configured "Corp.example").
MatchesPrivileged(domain) == domain = Some("corp.Example")

\* The role touchIdentity is to give, from the role its find_user read.
ExpectedRole(found, domain) ==
    IF IsSome(found) /\ Unwrap(found).role = "Admin" THEN "Admin"
    ELSE IF MatchesPrivileged(domain) THEN "Privileged"
    ELSE IF IsSome(found) THEN Unwrap(found).role
    ELSE "User"

\* C18: the user touch_user returns has role Admin if the role it read was
\* Admin, else Privileged if the supplied domain is a privileged one
\* (compared case-insensitively), else the role it read, or User for an
\* identity not seen before; and that user is what the store then holds for
\* the identity.
C18_Step(t) ==
    (ident[t].pc = "upsert" /\ ident'[t].result = "Ok") =>
       LET identity == Unwrap(ident[t].args)
           u == Unwrap(ident[t].user)
       IN  /\ u.role = ExpectedRole(ident[t].found, identity.domain)
           /\ u \in users'
           /\ FindUser(backend, users', identity.channel, identity.handle) = Some(u)

C19_Step(t) ==
    (ident'[t] # ident[t]) =>
       \A u \in users :
          u.role = "Admin" =>
             \E v \in users' : /\ v.channel = u.channel
                               /\ v.handle = u.handle
                               /\ v.role = "Admin"

C19_AdminSticky == [][\A t \in Touchers : C19_Step(t)]_vars

\* C20: set_role by an actor that is not Admin returns Forbidden and leaves
\* the identity store unchanged; by an Admin it goes on to the store, and when
\* it returns Ok the target exists (created if it was absent) and find_user
\* on the target returns a user with exactly the requested role.
C20_Call(a) ==
    (ident[a].pc = "idle" /\ ident'[a] # ident[a]) =>
       \A ar \in Role, h \in Handles, r \in Role :
          SetRoleBegin(a, ar, "web", h, r) =>
             IF ar # "Admin"
             THEN /\ ident'[a].pc = "idle"
                  /\ ident'[a].result = "Forbidden"
                  /\ users' = users
             ELSE /\ ident'[a].pc = "upsert"
                  /\ ident'[a].result # "Forbidden"

C20_Done(a) ==
    (ident[a].pc = "upsert" /\ ident'[a].pc = "idle" /\ ident'[a].result = "Ok") =>
       LET args == Unwrap(ident[a].args)
           got == FindUser(backend, users', args.channel, args.handle)
       IN  /\ args.actor_role = "Admin"
           /\ IsSome(got)
           /\ Unwrap(got).role = args.role
           /\ Unwrap(got) = Unwrap(ident[a].user)

IdentityKey(u) == << Lower(u.channel), Lower(u.handle) >>

C21_OnePerIdentity ==
    \A u, v \in users : IdentityKey(u) = IdentityKey(v) => u = v

C21_IdKept ==
    \A u \in users : \A v \in users' :
       IdentityKey(u) = IdentityKey(v) => v.id = u.id

\* C21: the identity store never holds two users with the same lower-cased
\* (channel, handle), and the id stored for an identity (the id every
\* successful touch_user or set_role has just stored and returned) is never
\* replaced by another id, whatever the interleaving of the calls.
C21_OneUserStableId == [](C21_OnePerIdentity) /\ [][C21_IdKept]_vars

\* The daily cap the configuration gives a role.
CapOfRole(role) ==
    IF role = "User" THEN Some(limits.default_daily_cap)
    ELSE limits.privileged_daily_cap

\* The durable minted_total of (user, d), 0 without an entry.
MintedTotal(q, user_id, d) ==
    IF << user_id, d >> \in DOMAIN q THEN q[<< user_id, d >>].minted_total ELSE 0

C22_Step ==
    (reply' # reply /\ IsSome(reply') /\ Unwrap(reply').op = "quota_snapshot") =>
       LET r == Unwrap(reply')
       IN  /\ UNCHANGED << storeVars, memory, admitted, users, day >>
           /\ r.ok =>
                /\ r.minted = MintedTotal(quotas, r.user.id, day)
                /\ r.cap = CapOfRole(r.user.role)
                /\ r.remaining =
                      IF r.cap = None THEN None
                      ELSE IF r.minted <= Unwrap(r.cap)
                           THEN Some(Unwrap(r.cap) - r.minted)
                           ELSE Some(0)

\* C22: a quota_snapshot call changes no stored state and returns minted = the
\* durable minted_total of (user, today), 0 without a quota entry, cap = the
\* daily cap of the user's role, and remaining = cap - minted when minted <=
\* cap, 0 when minted > cap, none when the role has no cap.
C22_QuotaSnapshot == [][C22_Step]_vars

\* A snapshot was returned for a user whose durable total is above the cap.
C22_Witness ==
    /\ IsSome(reply)
    /\ Unwrap(reply).op = "quota_snapshot"
    /\ Unwrap(reply).ok
    /\ IsSome(Unwrap(reply).cap)
    /\ Unwrap(reply).minted > Unwrap(Unwrap(reply).cap)
    /\ Unwrap(reply).remaining = Some(0)

\* The stored requests of channel c requested on day d.
RequestedOn(d, c) ==
    {id \in DOMAIN mints : mints[id].requested_at.day = d /\ mints[id].channel = c}

RECURSIVE TotalOf(_)
TotalOf(ids) ==
    IF ids = {} THEN 0
    ELSE LET id == CHOOSE i \in ids : TRUE
         IN  mints[id].amount + TotalOf(ids \ {id})

C23_Step ==
    (reply' # reply /\ IsSome(reply') /\ Unwrap(reply').op = "daily_summary") =>
       LET r == Unwrap(reply')
       IN  r.error # Some("StorageUnavailable") =>
             /\ r.ok
             /\ DOMAIN r.rows =
                   {c \in {"web", "telegram"} : RequestedOn(r.day, c) # {}}
             /\ \A c \in DOMAIN r.rows :
                   /\ r.rows[c].total_amount = TotalOf(RequestedOn(r.day, c))
                   /\ r.rows[c].success_count =
                         Cardinality({id \in RequestedOn(r.day, c) :
                                         mints[id].status = "Completed"})
                   /\ r.rows[c].failure_count =
                         Cardinality({id \in RequestedOn(r.day, c) :
                                         mints[id].status = "Failed"})

\* C23: daily_summary(day) returns one row for each channel with a request
\* requested on that day: total_amount is the sum of the amounts of those
\* requests whatever their status, success_count the number of Completed ones
\* and failure_count the number of Failed ones; requests of other days
\* contribute nothing.
C23_DailySummary == [][C23_Step]_vars

\* The buffered requests never outnumber the capacity.
C24_Bounded == Len(chan) <= depth

\* A submit returns Ok only on a step that found a free slot.
C24_Backpressure ==
    \A s \in Submitters :
       (pc[s] = "send" /\ pc'[s] = "idle" /\ result'[s] = "Ok") =>
          /\ Len(chan) < depth
          /\ chan' = Append(chan, Unwrap(req[s]))

\* A buffered request leaves the buffer only into the hands of a worker.
C24_NoDrop ==
    \A i \in 1..Len(chan) :
       \/ \E j \in 1..Len(chan') : chan'[j] = chan[i]
       \/ /\ i = 1
          /\ \E w \in Workers : pc[w] = "recv" /\ req'[w] = Some(chan[1])

\* C24: the work queue never buffers more requests than its capacity, a
\* MintQueue::enqueue call returns Ok only once a slot was free for its
\* request, and no request whose enqueue returned Ok leaves the buffer other
\* than by being received by the worker.
C24_BoundedNoDrop ==
    [](C24_Bounded) /\ [][C24_Backpressure /\ C24_NoDrop]_vars

\* MintQueue::enqueue has returned Ok for request id.
SubmittedOk(id) ==
    \E s \in Submitters :
       /\ pc[s] = "idle"
       /\ result[s] = "Ok"
       /\ IsSome(req[s])
       /\ Unwrap(req[s]).id = id

StoredTerminal(id) == id \in DOMAIN mints /\ mints[id].status \in Terminal

\* C25: while the worker runs, the transfer returns and the store calls
\* succeed, every request whose MintQueue::enqueue returned Ok eventually has
\* a terminal stored status (Completed or Failed).
C25_SubmittedReachesTerminal ==
    \A id \in 1..(MaxReq + 1) : SubmittedOk(id) ~> StoredTerminal(id)

\* The worker has driven a submitted request to a terminal status.
C25_Witness ==
    \E id \in 1..(MaxReq + 1) :
       /\ SubmittedOk(id)
       /\ StoredTerminal(id)
       /\ transfers[id] = 1

C26_Success(w) ==
    (pc[w] = "record_outcome" /\ pc'[w] = "recv") =>
       LET r == Unwrap(req[w])
           k == << r.user_id, r.requested_at.day >>
       IN  /\ r.id \in DOMAIN mints'
           /\ mints'[r.id].status = "Completed"
           /\ IsSome(mints'[r.id].tx_hash)
           /\ IsSome(mints'[r.id].processed_at)
           /\ mints'[r.id].attempt = 1
           /\ SuccessCount(quotas', k) = SuccessCount(quotas, k) + 1

C26_Failure(w) ==
    (pc[w] = "mark_failed" /\ pc'[w] = "recv") =>
       LET r == Unwrap(req[w])
       IN  /\ r.id \in DOMAIN mints'
           /\ mints'[r.id].status = "Failed"
           /\ IsSome(mints'[r.id].error)
           /\ IsSome(mints'[r.id].processed_at)
           /\ mints'[r.id].attempt = 1
           /\ Cardinality(FailuresOf(failures', r.id)) = 1

\* C26: when the worker finishes a request it leaves the records inline mint
\* leaves: after a successful transfer the row is Completed with tx reference,
\* processed_at set and attempt = 1 and success_count is one more; after a
\* failed transfer the row is Failed with error and processed_at set and
\* attempt = 1, and the failure log holds one entry for the request.
C26_WorkerAsInline == [][\A w \in Workers : C26_Success(w) /\ C26_Failure(w)]_vars

\* Request id was moved to Processing on an earlier day and is still there:
\* it has been Processing for longer than a visibility timeout of less than
\* a day.
ProcessingPastTimeout(id) ==
    /\ id \in DOMAIN mints
    /\ mints[id].status = "Processing"
    /\ IsSome(mints[id].processed_at)
    /\ Unwrap(mints[id].processed_at) < day

\* C27: a request left in Processing for longer than the visibility timeout
\* is eventually returned by next_pending once more (its stored attempt
\* reaches 2), while callers keep polling next_pending.
C27_ReclaimAfterTimeout ==
    \A id \in 1..MaxPending :
       ProcessingPastTimeout(id) ~> (id \in DOMAIN mints /\ mints[id].attempt >= 2)

\* C28: given the same sequence of store operations, the in-memory, the
\* relational and the document backend return the same result to every call.
C28_BackendsAgree ==
    \A b1, b2 \in Backends : answer.out[b1] = answer.out[b2]

C29_Step ==
    (reply' # reply /\ IsSome(reply') /\ Unwrap(reply').op = "verify_token") =>
       LET r == Unwrap(reply')
       IN  r.issued.token.payload.exp <= r.now => ~ r.ok

\* C29: verify_token rejects every token whose exp is not strictly later than
\* the instant of verification; a token generated with expiry_hours = 0 and
\* verified in the same second is rejected.
C29_ExpiredRejected == [][C29_Step]_vars

\* The lower-case names of the channels and roles.
LowerName ==
    [x \in {"Web", "Telegram", "Discord", "User", "Privileged", "Admin"} |->
       CASE x = "Web" -> "web"
         [] x = "Telegram" -> "telegram"
         [] x = "Discord" -> "discord"
         [] x = "User" -> "user"
         [] x = "Privileged" -> "privileged"
         [] OTHER -> "admin"]

C30_Step ==
    (reply' # reply /\ IsSome(reply') /\ Unwrap(reply').op = "verify_token") =>
       LET r == Unwrap(reply')
           a == r.issued.args
       IN  ( /\ a.expiry_hours > 0
             /\ r.issued.key = ServiceSecret
             /\ r.now < r.issued.at + a.expiry_hours * 3600 ) =>
              /\ r.ok
              /\ Unwrap(r.claims).sub = a.user_id
              /\ Unwrap(r.claims).handle = a.handle
              /\ Unwrap(r.claims).channel = LowerName[a.channel]
              /\ Unwrap(r.claims).domain = a.domain
              /\ Unwrap(r.claims).role = LowerName[a.role]

\* C30: verify_token applied, before expiry and with the same secret, to the
\* token generate_token returned for a positive expiry succeeds, and the
\* claims' sub, handle, channel, domain and role equal the inputs, channel and
\* role as their lower-case names.
C30_RoundTrip == [][C30_Step]_vars

\* A token of an Admin with a domain was verified an hour minus a second
\* after it was generated.
C30_Witness ==
    /\ IsSome(reply)
    /\ Unwrap(reply).op = "verify_token"
    /\ Unwrap(reply).ok
    /\ Unwrap(reply).issued.args.expiry_hours = 1
    /\ Unwrap(reply).issued.args.role = "Admin"
    /\ Unwrap(reply).issued.args.domain = Some("corp.Example")
    /\ Unwrap(reply).now = Unwrap(reply).issued.at + 3599
    /\ Unwrap(Unwrap(reply).claims).role = "admin"

C31_Some(c) ==
    (pc[c] \in {"idle", "commit"} /\ pc'[c] = "done" /\ result'[c] = "Some") =>
       LET r == Unwrap(req'[c])
       IN  /\ r.id \in DOMAIN mints
           /\ mints[r.id].status = "Pending"
           /\ mints'[r.id].status = "Processing"
           /\ mints'[r.id].attempt = mints[r.id].attempt + 1
           /\ r = mints'[r.id]
           /\ \A id \in DOMAIN mints \ {r.id} : mints'[id] = mints[id]

C31_None(c) ==
    (pc[c] = "idle" /\ pc'[c] = "done" /\ result'[c] = "None") =>
       /\ mints' = mints
       /\ \A id \in DOMAIN mints : mints[id].status # "Pending"

\* C31: a next_pending call that returns a request returns one whose stored
\* status was Pending, stored now as Processing with attempt one higher, and
\* returns it as stored; a call that returns none found no Pending request and
\* changed no stored request.
C31_ClaimsOnlyPending ==
    [][\A c \in Claimers : C31_Some(c) /\ C31_None(c)]_vars

\* C32: the attempt stored for a request never decreases, whatever the
\* interleaving of inline mints, the worker and next_pending callers.
C32_AttemptMonotonic ==
    [][\A id \in DOMAIN mints :
          id \in DOMAIN mints' /\ mints'[id].attempt >= mints[id].attempt]_vars


\* ---------------------------------------------------------------------
\* record_mint called directly by several tasks, next to inline mints.

RecordMinters == {"e1", "c1"}

RecordMintAmounts == {50, 80}

\* QuotaRepository::record_mint(actor.id, today, a): one store operation (a
\* DashMap entry update, one INSERT .. ON CONFLICT statement, one update_one),
\* whose result the caller receives.
RecordMintCall(e, a) ==
    /\ pc[e] = "idle"
    /\ ncalls[e] < MaxRepoCalls
    /\ quotas' = IF RecordMintAccepted(backend)
                 THEN RecordMint(quotas, actor.id, day, a) ELSE quotas
    /\ ncalls' = [ncalls EXCEPT ![e] = @ + 1]
    /\ reply' = Some([op |-> "record_mint", ok |-> RecordMintAccepted(backend),
                      user |-> actor.id,
                      today |-> day, amount |-> a])
    /\ UNCHANGED << clock, tokens, replica, answer, users, ident, backend,
                    limits, actor, day, nextId, mints, queue, locked,
                    failures, memory, mutex, chan, depth, closed, pc, call,
                    req, result, transfers, admitted, debits, faulted >>

NextRecordMint ==
    \/ \E e \in RecordMinters, a \in RecordMintAmounts : RecordMintCall(e, a)
    \/ \E p \in PipelineMinters, a \in PipelineAmounts : MintBegin(p, actor, a)
    \/ \E p \in PipelineMinters : MintStep(p)
    \/ Midnight

SpecRecordMint == InitAny /\ [][NextRecordMint]_vars

C33_Returned == \E e \in RecordMinters : ncalls'[e] = ncalls[e] + 1

C33_Effect ==
    C33_Returned =>
       LET r   == Unwrap(reply')
           key == << r.user, r.today >>
       IN  /\ r.ok
           /\ key \in DOMAIN quotas'
           /\ IF key \in DOMAIN quotas
              THEN /\ quotas'[key].minted_total =
                         quotas[key].minted_total + r.amount
                   /\ quotas'[key].success_count = quotas[key].success_count
              ELSE /\ quotas'[key].minted_total = r.amount
                   /\ quotas'[key].success_count = 0

C33_NeverDecreases ==
    \A key \in DOMAIN quotas :
       /\ key \in DOMAIN quotas'
       /\ quotas'[key].minted_total >= quotas[key].minted_total

\* C33: on every backend a record_mint call creates the quota entry with
\* minted_total = amount and success_count = 0 when there is none and
\* otherwise adds amount to minted_total and leaves success_count alone, so
\* that interleaved calls on one key lose no update; minted_total never
\* decreases.
C33_RecordMint == [][C33_Effect /\ C33_NeverDecreases]_vars


\* C34: worker_loop stops only when the queue is closed and every buffered
\* request has been handled, and then it returns Ok; a failed transfer or a
\* failed storage call does not stop it.
C34_StopsOnlyAtClose ==
    [][\A w \in Workers :
          (pc[w] # "stopped" /\ pc'[w] = "stopped") =>
             /\ closed
             /\ chan = << >>
             /\ result'[w] = "Ok"]_vars


\* The role of the caller has no daily cap configured.
C35_Uncapped == CapOfRole(actor.role) = None

\* A mint of an amount within the ceiling goes straight to record_mint.
C35_Admitted(p) ==
    \A a \in Amounts :
       (a > 0 /\ a <= max_amount(limits, actor.role) /\ MintBegin(p, actor, a)) =>
          /\ pc'[p] = "record_mint"
          /\ call'[p].amount = a

\* The record_mint of an admitted mint, unless the storage is unavailable,
\* adds the amount to the durable minted_total and the mint goes on.
C35_Debited(p) ==
    (pc[p] = "record_mint" /\ pc'[p] # "record_mint" /\ ~faulted') =>
       /\ pc'[p] = "enqueue"
       /\ MintedTotal(quotas', actor.id, call[p].today) =
             MintedTotal(quotas, actor.id, call[p].today) + call[p].amount

\* C35: for a role without a configured daily cap no mint is rejected with
\* DailyCapReached: every mint within the ceiling is admitted, however many
\* there are, and each is still debited to the durable quota ledger.
C35_UncappedAlwaysAdmitted ==
    /\ [](C35_Uncapped => \A p \in Minters : result[p] # "DailyCapReached")
    /\ [][C35_Uncapped =>
             \A p \in Minters : C35_Admitted(p) /\ C35_Debited(p)]_vars


\* A check_and_record whose record_mint fails returns the error.
C36_ErrorReturned(p) ==
    (pc[p] = "record_mint" /\ pc'[p] = "idle") =>
       /\ result'[p] = "StorageUnavailable"
       /\ quotas' = quotas

\* With no call in flight the in-process counter of (user, day) holds only
\* amounts that record_mint stored.
C36_CounterIsRecorded ==
    AllIdle =>
       \A k \in DOMAIN memory :
          CounterValue(memory, k) = MintedTotal(quotas, k[1], k[2])

\* C36: when record_mint fails inside check_and_record the error is returned
\* and the in-process counter of (user, day) is what it was before the call:
\* a debit that was not recorded durably consumes none of the daily allowance.
C36_FailedDebitNotCounted ==
    /\ [](C36_CounterIsRecorded)
    /\ [][\A p \in Minters : C36_ErrorReturned(p)]_vars


\* The requests of user_id whose requested_at falls on day d.
RequestsOfUser(m, user_id, d) ==
    {id \in DOMAIN m : m[id].user_id = user_id /\ date_naive(m[id].requested_at) = d}

C37_Days == 0 .. MaxDay + 1

\* C37: a failed transfer is not refunded: in inline mode the durable
\* minted_total of (user, day) is always at least the sum of the amounts of
\* the user's requests requested that day, Completed and Failed alike, and
\* equals it when no mint is in flight and no storage call has failed.
C37_NoRefund ==
    \A d \in C37_Days :
       LET s == SumAmount(mints, RequestsOfUser(mints, actor.id, d))
       IN  /\ MintedTotal(quotas, actor.id, d) >= s
           /\ (AllIdle /\ ~faulted) => MintedTotal(quotas, actor.id, d) = s


\* C38: in inline mode, for each (user, day) the quota success_count is at
\* most the number of the user's requests requested that day whose stored
\* status is Completed, and equals that number when no mint is in flight.
C38_SuccessCountIsCompleted ==
    \A d \in C37_Days :
       LET n == CountStatus(mints, RequestsOfUser(mints, actor.id, d), "Completed")
       IN  /\ SuccessCount(quotas, << actor.id, d >>) <= n
           /\ AllIdle => SuccessCount(quotas, << actor.id, d >>) = n


\* The user the last successful set_role returned, if any.
C39_Assigned == IF IsSome(reply) /\ Unwrap(reply).op = "set_role"
                THEN Some(Unwrap(reply).user) ELSE None

\* A touch_user call whose find_user returned the user as set_role stored it
\* writes that user back with the role set_role gave it.
C39_Step(t) ==
    (/\ ident[t].pc \in {"upsert_changed", "upsert"}
     /\ ident'[t] # ident[t]
     /\ IsSome(C39_Assigned)
     /\ ident[t].found = C39_Assigned
     /\ users' # users) =>
       LET target == Unwrap(C39_Assigned)
           got == FindUser(backend, users', target.channel, target.handle)
       IN  /\ IsSome(got)
           /\ Unwrap(got).role = target.role

\* C39: the role a successful set_role gave a target stays the target's
\* stored role across later touch_user calls for that target, whatever their
\* domain, until the next successful set_role.
C39_RoleKept == [][\A t \in Touchers : C39_Step(t)]_vars


\* ---------------------------------------------------------------------
\* Two processes over different ledgers receive the same check_and_record
\* calls.

MaxChecks == 3

\* A check_and_record that starts from the durable minted_total when the
\* process has no counter for the key yet.
check_and_record_from_ledger(b, lim, mem, q, user, today, amount) ==
    LET key == << user.id, today >>
        cap == max_daily_cap(lim, user.role)
        m0  == IF key \in DOMAIN mem THEN mem
               ELSE Put(mem, key, IF key \in DOMAIN q THEN q[key].minted_total ELSE 0)
    IN  IF amount > max_amount(lim, user.role)
        THEN [out |-> "AmountExceedsRoleLimit", memory |-> mem, quotas |-> q]
        ELSE IF IsSome(cap) /\ CapExceeded(CounterValue(m0, key), amount, Unwrap(cap))
             THEN [out |-> "DailyCapReached", memory |-> m0, quotas |-> q]
             ELSE [out |-> IF RecordMintAccepted(b) THEN "Ok" ELSE "StorageUnavailable",
                   memory |-> IF IsSome(cap)
                              THEN Put(m0, key, CounterValue(m0, key) + amount)
                              ELSE mem,
                   quotas |-> IF RecordMintAccepted(b)
                              THEN RecordMint(q, user.id, today, amount) ELSE q]

\* check_and_record(user, amount) run alone from the counter map mem and the
\* ledger q on day today: its result, the counter map and the ledger after.
check_and_record(b, lim, mem, q, user, today, amount) ==
    LET key == << user.id, today >>
        cap == max_daily_cap(lim, user.role)
        m0  == EntryOrInsert(mem, key)
    IN  IF amount > max_amount(lim, user.role)
        THEN [out |-> "AmountExceedsRoleLimit", memory |-> mem, quotas |-> q]
        ELSE IF IsSome(cap) /\ CapExceeded(CounterValue(m0, key), amount, Unwrap(cap))
             THEN [out |-> "DailyCapReached", memory |-> m0, quotas |-> q]
             ELSE [out |-> IF RecordMintAccepted(b) THEN "Ok" ELSE "StorageUnavailable",
                   memory |-> IF IsSome(cap)
                              THEN Put(m0, key, CounterValue(m0, key) + amount)
                              ELSE mem,
                   quotas |-> IF RecordMintAccepted(b)
                              THEN RecordMint(q, user.id, today, amount) ELSE q]

\* The two executions: a process over an empty ledger, and a process started
\* again over the ledger its predecessor left.
Runs == {"empty", "restarted"}

\* minted_total left for (user, day 1) by the process that ran before.
LedgerTotals == {50, 150, 200}

InitRestart ==
    /\ backend \in Backends
    /\ limits \in LimitConfigs
    /\ actor \in Users
    /\ InitStoreBase
    /\ InitTasks
    /\ \E t \in LedgerTotals :
          replica = [r \in Runs |->
                       [memory |-> << >>,
                        quotas |-> IF r = "empty" THEN << >>
                                   ELSE Put(<< >>, << actor.id, 1 >>,
                                            [minted_total |-> t,
                                             success_count |-> 1])]]
    /\ answer = [n |-> 0, op |-> "none", out |-> [r \in Runs |-> "none"]]

\* Both processes receive check_and_record(actor, a).
CheckAndRecordBoth(a) ==
    /\ answer.n < MaxChecks
    /\ LET res == [r \in Runs |->
                     check_and_record(backend, limits, replica[r].memory,
                                      replica[r].quotas, actor, day, a)]
       IN  /\ replica' = [r \in Runs |-> [memory |-> res[r].memory,
                                          quotas |-> res[r].quotas]]
           /\ answer' = [n |-> answer.n + 1, op |-> "check_and_record",
                         out |-> [r \in Runs |-> res[r].out]]
    /\ UNCHANGED << clock, tokens, reply, users, ident, backend, limits, actor,
                    day, nextId, mints, queue, locked, quotas, failures,
                    memory, mutex, chan, depth, closed, pc, call, req,
                    result, ncalls, transfers, admitted, debits, faulted >>

NextRestart ==
    \/ \E a \in Amounts : CheckAndRecordBoth(a)
    \/ Midnight

SpecRestart == InitRestart /\ [][NextRestart]_vars

\* C40: the decision of check_and_record depends on the role limits, the
\* amount and the in-process counter only: two executions that start with
\* the same counter over different durable minted_total values admit and
\* reject the same calls, and their counters stay equal.
C40_LedgerIndependent ==
    /\ answer.out["empty"] = answer.out["restarted"]
    /\ replica["empty"].memory = replica["restarted"].memory

\* An admitted call and then a DailyCapReached, over a ledger that already
\* held the whole cap.
C40_Witness ==
    /\ answer.out["restarted"] = "DailyCapReached"
    /\ MintedTotal(replica["restarted"].quotas, actor.id, 1) >= 200
    /\ MintedTotal(replica["empty"].quotas, actor.id, 1) > 0
    /\ MintedTotal(replica["empty"].quotas, actor.id, 1) <
          MintedTotal(replica["restarted"].quotas, actor.id, 1)

=============================================================================
